---- MODULE Spec2Model ----
(***************************************************************************)
(* Headline de-duplication and clustering engine of                        *)
(* src/src/app/api/headlines/route.ts.                                     *)
(*                                                                         *)
(* A JavaScript string is a sequence of one-character strings, so that     *)
(* lower-casing, tokenising, stemming and the Jaro-Winkler scan are        *)
(* computed character by character as the code computes them.  A number    *)
(* that the code keeps as a float ratio is kept as an exact fraction       *)
(* [num, den]; comparisons cross-multiply.                                 *)
(***************************************************************************)
EXTENDS Integers, Sequences, FiniteSets, TLC

\* ------------------------------------------------------------------------
\* Characters and generic string helpers (String.prototype methods)
\* ------------------------------------------------------------------------
LowerLetters == <<"a","b","c","d","e","f","g","h","i","j","k","l","m",
                  "n","o","p","q","r","s","t","u","v","w","x","y","z">>

UpperLetters == <<"A","B","C","D","E","F","G","H","I","J","K","L","M",
                  "N","O","P","Q","R","S","T","U","V","W","X","Y","Z">>

DigitChars == <<"0","1","2","3","4","5","6","7","8","9">>

LowerSet == {LowerLetters[i] : i \in 1..26}

UpperSet == {UpperLetters[i] : i \in 1..26}

DigitSet == {DigitChars[i] : i \in 1..10}

\* a function written as a comprehension, as the tuple it denotes
AsTuple(f) == SubSeq(f, 1, Len(f))

\* the position of an upper-case letter in the alphabet
LetterIndex(c) == CHOOSE i \in 1..26 : UpperLetters[i] = c

Min(x, y) == IF x <= y THEN x ELSE y

Max(x, y) == IF x >= y THEN x ELSE y

\* String.prototype.toLowerCase on the ASCII alphabet
toLowerCase(s) ==
    AsTuple([i \in 1..Len(s) |->
                IF s[i] \in UpperSet THEN LowerLetters[LetterIndex(s[i])] ELSE s[i]])

\* the class [a-z0-9]
AlnumSet == LowerSet \cup DigitSet

\* the class \s (the inputs carry the space as their only white space)
SpaceSet == {" "}

IsSpace(c) == c \in SpaceSet

\* String.prototype.endsWith
endsWith(s, suffix) ==
    /\ Len(suffix) <= Len(s)
    /\ SubSeq(s, Len(s) - Len(suffix) + 1, Len(s)) = suffix

\* String.prototype.startsWith at a position
StartsWithAt(s, i, prefix) ==
    /\ i + Len(prefix) - 1 <= Len(s)
    /\ SubSeq(s, i, i + Len(prefix) - 1) = prefix

\* s.slice(0, -n)
DropLast(s, n) == SubSeq(s, 1, Len(s) - n)

\* the indices of s, in order
Indices(s) == AsTuple([i \in 1..Len(s) |-> i])

\* first index >= i whose character is in class (when member) or outside it
\* (when not member), or Len(s)+1
ScanUntil(s, i, class, member) ==
    LET hits == {j \in i..Len(s) : (s[j] \in class) = member}
    IN  IF hits = {} THEN Max(i, Len(s) + 1)
        ELSE CHOOSE j \in hits : \A k \in i..(j - 1) : k \notin hits

\* last index whose character is outside class, or 0
LastOutside(s, class) ==
    LET hits == {j \in 1..Len(s) : s[j] \notin class}
    IN  IF hits = {} THEN 0 ELSE CHOOSE j \in hits : \A k \in (j + 1)..Len(s) : k \notin hits

\* String.prototype.trim
trim(s) == SubSeq(s, ScanUntil(s, 1, SpaceSet, FALSE), LastOutside(s, SpaceSet))

\* s.replace(/\/+$/g, '')
StripTrailingSlashes(s) == SubSeq(s, 1, LastOutside(s, {"/"}))

\* s.replace(/[^...]+/g, ' ') : every maximal run of characters outside the
\* kept class becomes one space
ReplaceRuns(s, keep) ==
    LET starts == SelectSeq(Indices(s),
                            LAMBDA i : s[i] \in keep \/ i = 1 \/ s[i - 1] \in keep)
    IN  AsTuple([k \in 1..Len(starts) |->
                    IF s[starts[k]] \in keep THEN s[starts[k]] ELSE " "])

\* ------------------------------------------------------------------------
\* route.ts 1149-1160 : constants
\* ------------------------------------------------------------------------
MAX_TOKEN_COUNT == 64

TOKEN_MIN_LENGTH_DEFAULT == 3

TOKEN_MIN_LENGTH_STRICT == 2

TOKEN_OVERLAP_THRESHOLD_DEFAULT == [num |-> 7, den |-> 10]

TOKEN_OVERLAP_THRESHOLD_STRICT == [num |-> 55, den |-> 100]

STRICT_TITLE_SIMILARITY_THRESHOLD == [num |-> 88, den |-> 100]

MAX_EXCLUDE_URLS == 200

DedupeModes == {"default", "strict"}

\* the comparison written > where the code has >=
FracGT(x, y) == x.num * y.den > y.num * x.den

\* route.ts 1392, 1401 : x >= y on two non-negative fractions, compared
\* exactly (the quotient of two integers that equals 0.7 or 0.55 rounds to the
\* same double as the literal, and any other quotient of token counts up to
\* MAX_TOKEN_COUNT is further from it than rounding can move it)
FracGE(x, y) == x.num * y.den >= y.num * x.den

FracZero == [num |-> 0, den |-> 1]

FracOne == [num |-> 1, den |-> 1]

\* ------------------------------------------------------------------------
\* route.ts 1162-1176 : normalizeUrlForComparison
\* new URL(url) is modelled for the http(s) URLs  scheme://host[/path][?q][#f]
\* (host without port or user info); every other string makes it throw.
\* ------------------------------------------------------------------------
HttpPrefix == <<"h","t","t","p",":","/","/">>

HttpsPrefix == <<"h","t","t","p","s",":","/","/">>

UrlDelimiters == {"/", "?", "#"}

QueryDelimiters == {"?", "#"}

\* the parsed URL, or "throws" when the URL constructor rejects the string
ParseUrl(url) ==
    LET t == trim(url)
        l == toLowerCase(t)
        schemeLen == IF StartsWithAt(l, 1, HttpsPrefix) THEN 8
                     ELSE IF StartsWithAt(l, 1, HttpPrefix) THEN 7 ELSE 0
        hostEnd == ScanUntil(t, schemeLen + 1, UrlDelimiters, TRUE)
        pathEnd == ScanUntil(t, hostEnd, QueryDelimiters, TRUE)
    IN  IF schemeLen = 0 \/ hostEnd = schemeLen + 1
        THEN [ok |-> FALSE, protocol |-> <<>>, hostname |-> <<>>, pathname |-> <<>>]
        ELSE [ok |-> TRUE,
              protocol |-> SubSeq(l, 1, schemeLen - 2),
              hostname |-> SubSeq(l, schemeLen + 1, hostEnd - 1),
              pathname |-> IF pathEnd = hostEnd THEN <<"/">>
                           ELSE SubSeq(t, hostEnd, pathEnd - 1)]

normalizeUrlForComparison(url) ==
    IF url = <<>> THEN <<>>
    ELSE LET parsed == ParseUrl(url)
         IN  IF parsed.ok
             THEN LET normalizedPath == StripTrailingSlashes(parsed.pathname)
                  IN  toLowerCase(StripTrailingSlashes(
                          parsed.protocol \o <<"/","/">> \o parsed.hostname \o normalizedPath))
             ELSE toLowerCase(StripTrailingSlashes(trim(url)))

\* ------------------------------------------------------------------------
\* route.ts 1178-1180 : normalizeHeadlineText
\* ------------------------------------------------------------------------
normalizeHeadlineText(text) == trim(ReplaceRuns(toLowerCase(text), AlnumSet))

\* ------------------------------------------------------------------------
\* route.ts 1182-1232 : getTokenMinLength, normalizeTokenVariants
\* ------------------------------------------------------------------------
getTokenMinLength(mode) ==
    IF mode = "strict" THEN TOKEN_MIN_LENGTH_STRICT ELSE TOKEN_MIN_LENGTH_DEFAULT

\* the suffix list, in the order the loop tries it
StemSuffixes == <<
    <<"a","t","i","o","n","s">>,
    <<"a","t","i","o","n">>,
    <<"m","e","n","t","s">>,
    <<"m","e","n","t">>,
    <<"i","z","i","n","g">>,
    <<"i","n","g","l","y">>,
    <<"i","n","g">>,
    <<"e","r","s">>,
    <<"e","r">>,
    <<"i","e","d">>,
    <<"i","e","s">>,
    <<"e","d">>,
    <<"l","y">>,
    <<"e","s">>,
    <<"s">> >>

\* base.replace(/'(?:s|re|d)$/g, '')
StripContraction(token) ==
    IF endsWith(token, <<"'","r","e">>) THEN DropLast(token, 3)
    ELSE IF endsWith(token, <<"'","s">>) \/ endsWith(token, <<"'","d">>) THEN DropLast(token, 2)
    ELSE token

\* the for loop over suffixes: the first suffix that fits is stripped
StripFirstSuffix(stemmed) ==
    LET fitting == SelectSeq(StemSuffixes,
                             LAMBDA suffix : /\ endsWith(stemmed, suffix)
                                             /\ Len(stemmed) - Len(suffix) >= 3)
    IN  IF fitting = <<>> THEN stemmed ELSE DropLast(stemmed, Len(fitting[1]))

\* Array.from(new Set([...])) : insertion order, duplicates dropped
DedupeSeq(s) ==
    LET firsts == SelectSeq(Indices(s), LAMBDA i : \A j \in 1..(i - 1) : s[j] # s[i])
    IN  AsTuple([k \in 1..Len(firsts) |-> s[firsts[k]]])

\* the variants computed without the early return of the default mode
StemInEveryMode(token, mode) ==
    LET base0 == StripContraction(token)
        base == IF endsWith(base0, <<"i","e","s">>) /\ Len(base0) > 4
                    THEN Append(DropLast(base0, 3), "y")
                ELSE IF endsWith(base0, <<"i","e","d">>) /\ Len(base0) > 4
                    THEN Append(DropLast(base0, 3), "y")
                ELSE base0
        stemmed == StripFirstSuffix(base)
    IN  SelectSeq(DedupeSeq(<<token, base, stemmed>>), LAMBDA v : v # <<>>)

normalizeTokenVariants(token, mode) ==
    IF mode # "strict" THEN <<token>>
    ELSE LET base0 == StripContraction(token)
             base == IF endsWith(base0, <<"i","e","s">>) /\ Len(base0) > 4
                         THEN Append(DropLast(base0, 3), "y")
                     ELSE IF endsWith(base0, <<"i","e","d">>) /\ Len(base0) > 4
                         THEN Append(DropLast(base0, 3), "y")
                     ELSE base0
             stemmed == StripFirstSuffix(base)
         IN  SelectSeq(DedupeSeq(<<token, base, stemmed>>), LAMBDA v : v # <<>>)

\* ------------------------------------------------------------------------
\* route.ts 1234-1266 : buildTokenSet
\* ------------------------------------------------------------------------
\* a match of /https?:\/\/\S+/ can start at index i
UrlStartsAt(s, i) ==
    \/ StartsWithAt(s, i, HttpsPrefix) /\ i + 8 <= Len(s) /\ ~IsSpace(s[i + 8])
    \/ StartsWithAt(s, i, HttpPrefix) /\ i + 7 <= Len(s) /\ ~IsSpace(s[i + 7])

\* .replace(/https?:\/\/\S+/g, ' ') : a match runs from its start to the next
\* white space; each match becomes one space
StripUrls(s) ==
    LET urlStarts == {i \in 1..Len(s) : UrlStartsAt(s, i)}
        InUrl(p) == \E j \in urlStarts : j <= p /\ \A q \in j..p : ~IsSpace(s[q])
        kept == SelectSeq(Indices(s), LAMBDA p : ~InUrl(p) \/ p = 1 \/ ~InUrl(p - 1))
    IN  AsTuple([k \in 1..Len(kept) |-> IF InUrl(kept[k]) THEN " " ELSE s[kept[k]]])

\* .split(/\s+/) : the pieces between runs of white space (a leading or
\* trailing run gives an empty piece)
SplitWhitespace(s) ==
    LET starts == SelectSeq(Indices(s),
                            LAMBDA i : ~IsSpace(s[i]) /\ (i = 1 \/ IsSpace(s[i - 1])))
        pieces == AsTuple([k \in 1..Len(starts) |->
                      SubSeq(s, starts[k], ScanUntil(s, starts[k], SpaceSet, TRUE) - 1)])
        leading == IF s = <<>> \/ IsSpace(s[1]) THEN << <<>> >> ELSE <<>>
        trailing == IF s # <<>> /\ IsSpace(s[Len(s)]) THEN << <<>> >> ELSE <<>>
    IN  leading \o pieces \o trailing

\* the variants of raw token k that the inner loop adds, in order
AddedVariants(rawTokens, k, mode) ==
    IF rawTokens[k] = <<>> THEN <<>>
    ELSE SelectSeq(normalizeTokenVariants(rawTokens[k], mode),
                   LAMBDA variant : variant # <<>> /\ Len(variant) >= getTokenMinLength(mode))

\* the two for loops without the early return at MAX_TOKEN_COUNT
FillWithoutCap(rawTokens, mode) ==
    UNION {{variant : variant \in
                {AddedVariants(rawTokens, k, mode)[j] :
                     j \in 1..Len(AddedVariants(rawTokens, k, mode))}} :
           k \in 1..Len(rawTokens)}

\* the two for loops: tokenSet.add(variant) in order, returning as soon as
\* the set holds MAX_TOKEN_COUNT tokens
FillTokenSet(rawTokens, mode) ==
    LET variants == AsTuple([k \in 1..Len(rawTokens) |-> AddedVariants(rawTokens, k, mode)])
        \* the set after the outer loop has finished raw token k
        After(k) == UNION {{variants[i][j] : j \in 1..Len(variants[i])} : i \in 1..k}
        sizes == AsTuple([k \in 1..Len(rawTokens) |-> Cardinality(After(k))])
        filling == {k \in 1..Len(rawTokens) : sizes[k] >= MAX_TOKEN_COUNT}
    IN  IF filling = {} THEN After(Len(rawTokens))
        ELSE LET last == CHOOSE k \in filling : \A i \in filling : k <= i
                 Within(j) == After(last - 1) \cup {variants[last][i] : i \in 1..j}
                 stop == CHOOSE j \in 1..Len(variants[last]) :
                             /\ Cardinality(Within(j)) >= MAX_TOKEN_COUNT
                             /\ \A i \in 1..(j - 1) : Cardinality(Within(i)) < MAX_TOKEN_COUNT
             IN  Within(stop)

RawTokens(title, description, mode) ==
    LET combined == title \o <<" ">> \o description
        cleaned == ReplaceRuns(StripUrls(toLowerCase(combined)), AlnumSet \cup SpaceSet)
    IN  SelectSeq(SplitWhitespace(cleaned),
                  LAMBDA token : Len(token) >= getTokenMinLength(mode))

buildTokenSet(title, description, mode) ==
    FillTokenSet(RawTokens(title, description, mode), mode)

\* ------------------------------------------------------------------------
\* route.ts 1268-1290 : computeTokenOverlapRatio, getTokenOverlapThreshold
\* ------------------------------------------------------------------------
\* the shared tokens counted against the first set, whichever is smaller
OverlapOverFirstSet(a, b) ==
    IF Cardinality(a) = 0 \/ Cardinality(b) = 0 THEN FracZero
    ELSE [num |-> Cardinality({token \in a : token \in b}), den |-> Max(1, Cardinality(a))]

computeTokenOverlapRatio(a, b) ==
    IF Cardinality(a) = 0 \/ Cardinality(b) = 0 THEN FracZero
    ELSE LET smaller == IF Cardinality(a) <= Cardinality(b) THEN a ELSE b
             larger == IF smaller = a THEN b ELSE a
         IN  [num |-> Cardinality({token \in smaller : token \in larger}),
              den |-> Max(1, Cardinality(smaller))]

\* the two thresholds taken for each other
ThresholdsSwapped(mode) ==
    IF mode = "strict" THEN TOKEN_OVERLAP_THRESHOLD_DEFAULT
    ELSE TOKEN_OVERLAP_THRESHOLD_STRICT

getTokenOverlapThreshold(mode) ==
    IF mode = "strict" THEN TOKEN_OVERLAP_THRESHOLD_STRICT
    ELSE TOKEN_OVERLAP_THRESHOLD_DEFAULT

\* ------------------------------------------------------------------------
\* route.ts 1292-1364 : computeJaroWinklerSimilarity
\* Indices are 1-based; aMatches and bMatches are the sets of flagged indices.
\* ------------------------------------------------------------------------
\* the inner loop: the first unflagged j in [start, end) with a[i] = b[j], or 0
FirstMatch(a, b, i, start, end, bMatches) ==
    LET free == {j \in start..(end - 1) : j \notin bMatches /\ a[i] = b[j]}
    IN  IF free = {} THEN 0 ELSE CHOOSE j \in free : \A k \in free : j <= k

\* the matching loop over i; returns the flagged indices of both strings
RECURSIVE JaroMatches(_, _, _, _, _, _)
JaroMatches(a, b, i, matchDistance, aMatches, bMatches) ==
    IF i > Len(a) THEN [a |-> aMatches, b |-> bMatches]
    ELSE LET j == FirstMatch(a, b, i, Max(1, i - matchDistance),
                             Min(i + matchDistance + 1, Len(b) + 1), bMatches)
         IN  IF j = 0 THEN JaroMatches(a, b, i + 1, matchDistance, aMatches, bMatches)
             ELSE JaroMatches(a, b, i + 1, matchDistance,
                              aMatches \cup {i}, bMatches \cup {j})

\* the transposition loop: i walks the flagged characters of a, k those of b,
\* both in index order, and the pairs that differ are counted
JaroTranspositions(a, b, aMatches, bMatches) ==
    LET aFlagged == SelectSeq(Indices(a), LAMBDA i : i \in aMatches)
        bFlagged == SelectSeq(Indices(b), LAMBDA k : k \in bMatches)
    IN  Cardinality({n \in 1..Len(aFlagged) : a[aFlagged[n]] # b[bFlagged[n]]})

\* the while loop: the length of the common prefix, at most maxPrefix
CommonPrefix(a, b, maxPrefix) ==
    CHOOSE prefix \in 0..maxPrefix :
        /\ \A n \in 1..prefix : a[n] = b[n]
        /\ prefix = maxPrefix \/ a[prefix + 1] # b[prefix + 1]

computeJaroWinklerSimilarity(a, b) ==
    IF a = <<>> \/ b = <<>> THEN FracZero
    ELSE IF a = b THEN FracOne
    ELSE LET aLength == Len(a)
             bLength == Len(b)
             matchDistance == Max(0, (Max(aLength, bLength) \div 2) - 1)
             flagged == JaroMatches(a, b, 1, matchDistance, {}, {})
             m == Cardinality(flagged.a)
         IN  IF m = 0 THEN FracZero
             ELSE LET transpositions ==
                          JaroTranspositions(a, b, flagged.a, flagged.b)
                      \* jaro = (m/aLength + m/bLength + (m - transpositions/2)/m) / 3
                      jaroNum == 2 * m * m * bLength + 2 * m * m * aLength
                                 + (2 * m - transpositions) * aLength * bLength
                      jaroDen == 6 * aLength * bLength * m
                      prefix == CommonPrefix(a, b, Min(4, Min(aLength, bLength)))
                      \* winkler = jaro + prefix * 0.1 * (1 - jaro)
                      winklerNum == 10 * jaroNum + prefix * (jaroDen - jaroNum)
                      winklerDen == 10 * jaroDen
                  IN  IF winklerNum >= winklerDen THEN FracOne
                      ELSE [num |-> winklerNum, den |-> winklerDen]

\* ------------------------------------------------------------------------
\* route.ts 1366-1407 : areHeadlinesNearDuplicate
\* ------------------------------------------------------------------------
\* the classifier applying the title similarity check in every mode
NearDuplicateWithTitleSimilarity(a, b, options) ==
    \/ a.normalizedUrl # <<>> /\ b.normalizedUrl # <<>> /\ a.normalizedUrl = b.normalizedUrl
    \/ /\ a.normalizedTitle # <<>>
       /\ b.normalizedTitle # <<>>
       /\ a.normalizedTitle = b.normalizedTitle
    \/ /\ a.normalizedDescription # <<>>
       /\ b.normalizedDescription # <<>>
       /\ a.normalizedDescription = b.normalizedDescription
    \/ FracGE(computeTokenOverlapRatio(a.tokenSet, b.tokenSet),
              getTokenOverlapThreshold(options.mode))
    \/ FracGE(computeJaroWinklerSimilarity(a.normalizedTitle, b.normalizedTitle),
              STRICT_TITLE_SIMILARITY_THRESHOLD)

areHeadlinesNearDuplicate(a, b, options) ==
    IF a.normalizedUrl # <<>> /\ b.normalizedUrl # <<>> /\ a.normalizedUrl = b.normalizedUrl
        THEN TRUE
    ELSE IF /\ a.normalizedTitle # <<>>
            /\ b.normalizedTitle # <<>>
            /\ a.normalizedTitle = b.normalizedTitle
        THEN TRUE
    ELSE IF /\ a.normalizedDescription # <<>>
            /\ b.normalizedDescription # <<>>
            /\ a.normalizedDescription = b.normalizedDescription
        THEN TRUE
    ELSE IF FracGE(computeTokenOverlapRatio(a.tokenSet, b.tokenSet),
                   getTokenOverlapThreshold(options.mode))
        THEN TRUE
    ELSE IF options.mode = "strict"
        THEN FracGE(computeJaroWinklerSimilarity(a.normalizedTitle, b.normalizedTitle),
                    STRICT_TITLE_SIMILARITY_THRESHOLD)
    ELSE FALSE

\* ------------------------------------------------------------------------
\* route.ts 1409-1421 : createHeadlineCandidate
\* ------------------------------------------------------------------------
createHeadlineCandidate(headline, options) ==
    [data |-> headline,
     normalizedUrl |-> normalizeUrlForComparison(headline.url),
     normalizedTitle |-> normalizeHeadlineText(headline.title),
     normalizedDescription |-> normalizeHeadlineText(headline.description),
     tokenSet |-> buildTokenSet(headline.title, headline.description, options.mode),
     related |-> <<>>]

\* ------------------------------------------------------------------------
\* Inputs: the records one run may be offered (route.ts 906-915,
\* NormalizedHeadline; every call site passes a non-empty title and URL)
\* ------------------------------------------------------------------------
MaxOffers == 3

\* "Mars rover finds water", source A, no description, no provenance
MarsA ==
    [title |-> <<"M","a","r","s"," ","r","o","v","e","r"," ","f","i","n","d","s"," ","w","a","t","e","r">>,
     description |-> <<>>,
     url |-> <<"h","t","t","p","s",":","/","/","x",".","c","o","m","/","m","a","r","s">>,
     source |-> <<"A">>,
     publishedAt |-> "2024-07-01T08:00:00Z",
     keyword |-> "",
     queryUsed |-> "",
     searchQuery |-> ""]

\* "Mars Rover Finds Water!!", source B: the same normalized title as MarsA, another URL
MarsB ==
    [title |-> <<"M","a","r","s"," ","R","o","v","e","r"," ","F","i","n","d","s"," ","W","a","t","e","r","!","!">>,
     description |-> <<"W","a","t","e","r"," ","i","c","e"," ","w","a","s"," ","f","o","u","n","d"," ","b","y"," ","t","h","e"," ","r","o","v","e","r",".">>,
     url |-> <<"h","t","t","p","s",":","/","/","y",".","c","o","m","/","m","a","r","s","-","r","o","v","e","r">>,
     source |-> <<"B">>,
     publishedAt |-> "2024-07-01T09:00:00Z",
     keyword |-> "mars",
     queryUsed |-> "mars rover",
     searchQuery |-> "mars rover"]

\* another title under "HTTPS://X.com/mars/", which normalizes to the URL of MarsA
RoverC ==
    [title |-> <<"R","o","v","e","r"," ","u","p","d","a","t","e">>,
     description |-> <<>>,
     url |-> <<"H","T","T","P","S",":","/","/","X",".","c","o","m","/","m","a","r","s","/">>,
     source |-> <<"C">>,
     publishedAt |-> "2024-07-01T11:00:00Z",
     keyword |-> "",
     queryUsed |-> "",
     searchQuery |-> ""]

\* tests/headlinesRoute.test.js 1507-1523 : the two articles of the dedupe tests
AiTesting ==
    [title |-> <<"A","I"," ","t","e","s","t","i","n","g"," ","l","e","a","p","s"," ","a","h","e","a","d">>,
     description |-> <<"A"," ","n","e","w"," ","A","I"," ","t","e","s","t","i","n","g"," ","f","r","a","m","e","w","o","r","k"," ","l","e","a","p","s"," ","a","h","e","a","d"," ","i","n"," ","c","l","i","n","i","c","a","l"," ","t","r","i","a","l","s",".">>,
     url |-> <<"h","t","t","p","s",":","/","/","e","x","a","m","p","l","e",".","c","o","m","/","a","i","-","t","e","s","t","i","n","g","-","l","e","a","p","s">>,
     source |-> <<"T","e","c","h"," ","S","o","u","r","c","e">>,
     publishedAt |-> "2024-07-01T10:00:00Z",
     keyword |-> "",
     queryUsed |-> "ai testing breakthroughs",
     searchQuery |-> "ai testing breakthroughs"]

AiTests ==
    [title |-> <<"A","I"," ","t","e","s","t","s"," ","l","e","a","p"," ","a","h","e","a","d">>,
     description |-> <<"L","a","t","e","s","t"," ","A","I"," ","t","e","s","t","s"," ","l","e","a","p"," ","a","h","e","a","d"," ","a","m","i","d"," ","n","e","w"," ","f","r","a","m","e","w","o","r","k","s"," ","a","n","d"," ","t","r","i","a","l","s",".">>,
     url |-> <<"h","t","t","p","s",":","/","/","e","x","a","m","p","l","e",".","c","o","m","/","a","i","-","t","e","s","t","s","-","l","e","a","p">>,
     source |-> <<"S","c","i","e","n","c","e"," ","D","a","i","l","y">>,
     publishedAt |-> "2024-07-01T12:00:00Z",
     keyword |-> "",
     queryUsed |-> "ai testing breakthroughs",
     searchQuery |-> "ai testing breakthroughs"]

\* a Mars story under "https://x.com/a/", the URL the run may exclude
MarsX ==
    [title |-> <<"M","a","r","s"," ","r","o","v","e","r"," ","f","i","n","d","s"," ","w","a","t","e","r","?">>,
     description |-> <<"A","n"," ","e","x","c","l","u","d","e","d"," ","s","t","o","r","y"," ","a","b","o","u","t"," ","t","h","e"," ","r","o","v","e","r"," ","f","i","n","d","i","n","g"," ","w","a","t","e","r",".">>,
     url |-> <<"h","t","t","p","s",":","/","/","x",".","c","o","m","/","a","/">>,
     source |-> <<"D">>,
     publishedAt |-> "2024-07-01T13:00:00Z",
     keyword |-> "water",
     queryUsed |-> "",
     searchQuery |-> ""]

\* the normalized title of MarsA under the normalized URL of AiTests
Bridge ==
    [title |-> <<"M","a","r","s"," ","r","o","v","e","r"," ","f","i","n","d","s"," ","w","a","t","e","r">>,
     description |-> <<>>,
     url |-> <<"h","t","t","p","s",":","/","/","e","x","a","m","p","l","e",".","c","o","m","/","a","i","-","t","e","s","t","s","-","l","e","a","p","?","r","e","f","=","h","o","m","e">>,
     source |-> <<"E">>,
     publishedAt |-> "2024-07-01T14:00:00Z",
     keyword |-> "",
     queryUsed |-> "",
     searchQuery |-> ""]

\* two reports with one title and 70 distinct description words each:
\* k01 ... k70 and m01 ... m70
BigF ==
    [title |-> <<"B","u","d","g","e","t"," ","r","e","p","o","r","t">>,
     description |-> 
        <<"k","0","1"," ","k","0","2"," ","k","0","3"," ","k","0","4"," ","k","0","5"," ","k",
          "0","6"," ","k","0","7"," ","k","0","8"," ","k","0","9"," ","k","1","0"," ","k","1",
          "1"," ","k","1","2"," ","k","1","3"," ","k","1","4"," ","k","1","5"," ","k","1","6",
          " ","k","1","7"," ","k","1","8"," ","k","1","9"," ","k","2","0"," ","k","2","1"," ",
          "k","2","2"," ","k","2","3"," ","k","2","4"," ","k","2","5"," ","k","2","6"," ","k",
          "2","7"," ","k","2","8"," ","k","2","9"," ","k","3","0"," ","k","3","1"," ","k","3",
          "2"," ","k","3","3"," ","k","3","4"," ","k","3","5"," ","k","3","6"," ","k","3","7",
          " ","k","3","8"," ","k","3","9"," ","k","4","0"," ","k","4","1"," ","k","4","2"," ",
          "k","4","3"," ","k","4","4"," ","k","4","5"," ","k","4","6"," ","k","4","7"," ","k",
          "4","8"," ","k","4","9"," ","k","5","0"," ","k","5","1"," ","k","5","2"," ","k","5",
          "3"," ","k","5","4"," ","k","5","5"," ","k","5","6"," ","k","5","7"," ","k","5","8",
          " ","k","5","9"," ","k","6","0"," ","k","6","1"," ","k","6","2"," ","k","6","3"," ",
          "k","6","4"," ","k","6","5"," ","k","6","6"," ","k","6","7"," ","k","6","8"," ","k",
          "6","9"," ","k","7","0">>,
     url |-> <<"h","t","t","p","s",":","/","/","z",".","c","o","m","/","b","u","d","g","e","t","-","f">>,
     source |-> <<"F">>,
     publishedAt |-> "2024-07-01T15:00:00Z",
     keyword |-> "",
     queryUsed |-> "",
     searchQuery |-> ""]

BigG ==
    [title |-> <<"B","u","d","g","e","t"," ","r","e","p","o","r","t">>,
     description |-> 
        <<"m","0","1"," ","m","0","2"," ","m","0","3"," ","m","0","4"," ","m","0","5"," ","m",
          "0","6"," ","m","0","7"," ","m","0","8"," ","m","0","9"," ","m","1","0"," ","m","1",
          "1"," ","m","1","2"," ","m","1","3"," ","m","1","4"," ","m","1","5"," ","m","1","6",
          " ","m","1","7"," ","m","1","8"," ","m","1","9"," ","m","2","0"," ","m","2","1"," ",
          "m","2","2"," ","m","2","3"," ","m","2","4"," ","m","2","5"," ","m","2","6"," ","m",
          "2","7"," ","m","2","8"," ","m","2","9"," ","m","3","0"," ","m","3","1"," ","m","3",
          "2"," ","m","3","3"," ","m","3","4"," ","m","3","5"," ","m","3","6"," ","m","3","7",
          " ","m","3","8"," ","m","3","9"," ","m","4","0"," ","m","4","1"," ","m","4","2"," ",
          "m","4","3"," ","m","4","4"," ","m","4","5"," ","m","4","6"," ","m","4","7"," ","m",
          "4","8"," ","m","4","9"," ","m","5","0"," ","m","5","1"," ","m","5","2"," ","m","5",
          "3"," ","m","5","4"," ","m","5","5"," ","m","5","6"," ","m","5","7"," ","m","5","8",
          " ","m","5","9"," ","m","6","0"," ","m","6","1"," ","m","6","2"," ","m","6","3"," ",
          "m","6","4"," ","m","6","5"," ","m","6","6"," ","m","6","7"," ","m","6","8"," ","m",
          "6","9"," ","m","7","0">>,
     url |-> <<"h","t","t","p","s",":","/","/","z",".","c","o","m","/","b","u","d","g","e","t","-","g">>,
     source |-> <<"G">>,
     publishedAt |-> "2024-07-01T16:00:00Z",
     keyword |-> "",
     queryUsed |-> "",
     searchQuery |-> ""]

\* a record whose URL "/" normalizes to the empty string
NoUrl ==
    [title |-> <<"L","o","c","a","l"," ","n","e","w","s"," ","r","o","u","n","d","u","p">>,
     description |-> <<>>,
     url |-> <<"/">>,
     source |-> <<"H">>,
     publishedAt |-> "2024-07-01T17:00:00Z",
     keyword |-> "",
     queryUsed |-> "",
     searchQuery |-> ""]

\* a record whose title and URL both normalize to the empty string
Blank ==
    [title |-> <<"?","!">>,
     description |-> <<>>,
     url |-> <<"/">>,
     source |-> <<"I">>,
     publishedAt |-> "2024-07-01T18:00:00Z",
     keyword |-> "",
     queryUsed |-> "",
     searchQuery |-> ""]

\* ten tokens w01..w10; TenB shares 7 of its ten with TenA, TenC shares 6
TenA ==
    [title |-> <<"w","0","1">>,
     description |-> 
        <<"w","0","2"," ","w","0","3"," ","w","0","4"," ","w","0","5"," ","w","0","6"," ","w",
          "0","7"," ","w","0","8"," ","w","0","9"," ","w","1","0">>,
     url |-> <<"h","t","t","p","s",":","/","/","n",".","e","x","a","m","p","l","e","/","t","e","n","-","a">>,
     source |-> <<"P">>,
     publishedAt |-> "2024-07-02T08:00:00Z",
     keyword |-> "",
     queryUsed |-> "",
     searchQuery |-> ""]

TenB ==
    [title |-> <<"w","1","3">>,
     description |-> 
        <<"w","0","4"," ","w","0","5"," ","w","0","6"," ","w","0","7"," ","w","0","8"," ","w",
          "0","9"," ","w","1","0"," ","w","1","1"," ","w","1","2">>,
     url |-> <<"h","t","t","p","s",":","/","/","n",".","e","x","a","m","p","l","e","/","t","e","n","-","b">>,
     source |-> <<"P">>,
     publishedAt |-> "2024-07-02T08:00:00Z",
     keyword |-> "",
     queryUsed |-> "",
     searchQuery |-> ""]

TenC ==
    [title |-> <<"w","1","4">>,
     description |-> 
        <<"w","0","5"," ","w","0","6"," ","w","0","7"," ","w","0","8"," ","w","0","9"," ","w",
          "1","0"," ","w","1","1"," ","w","1","2"," ","w","1","3">>,
     url |-> <<"h","t","t","p","s",":","/","/","n",".","e","x","a","m","p","l","e","/","t","e","n","-","c">>,
     source |-> <<"P">>,
     publishedAt |-> "2024-07-02T08:00:00Z",
     keyword |-> "",
     queryUsed |-> "",
     searchQuery |-> ""]

\* twenty tokens x01..x20; TwentyB shares 11 of its twenty with TwentyA, TwentyC shares 10
TwentyA ==
    [title |-> <<"x","0","1">>,
     description |-> 
        <<"x","0","2"," ","x","0","3"," ","x","0","4"," ","x","0","5"," ","x","0","6"," ","x",
          "0","7"," ","x","0","8"," ","x","0","9"," ","x","1","0"," ","x","1","1"," ","x","1",
          "2"," ","x","1","3"," ","x","1","4"," ","x","1","5"," ","x","1","6"," ","x","1","7",
          " ","x","1","8"," ","x","1","9"," ","x","2","0">>,
     url |-> <<"h","t","t","p","s",":","/","/","n",".","e","x","a","m","p","l","e","/","t","w","e","n","t","y","-","a">>,
     source |-> <<"Q">>,
     publishedAt |-> "2024-07-02T08:00:00Z",
     keyword |-> "",
     queryUsed |-> "",
     searchQuery |-> ""]

TwentyB ==
    [title |-> <<"x","2","9">>,
     description |-> 
        <<"x","1","0"," ","x","1","1"," ","x","1","2"," ","x","1","3"," ","x","1","4"," ","x",
          "1","5"," ","x","1","6"," ","x","1","7"," ","x","1","8"," ","x","1","9"," ","x","2",
          "0"," ","x","2","1"," ","x","2","2"," ","x","2","3"," ","x","2","4"," ","x","2","5",
          " ","x","2","6"," ","x","2","7"," ","x","2","8">>,
     url |-> <<"h","t","t","p","s",":","/","/","n",".","e","x","a","m","p","l","e","/","t","w","e","n","t","y","-","b">>,
     source |-> <<"Q">>,
     publishedAt |-> "2024-07-02T08:00:00Z",
     keyword |-> "",
     queryUsed |-> "",
     searchQuery |-> ""]

TwentyC ==
    [title |-> <<"x","3","0">>,
     description |-> 
        <<"x","1","1"," ","x","1","2"," ","x","1","3"," ","x","1","4"," ","x","1","5"," ","x",
          "1","6"," ","x","1","7"," ","x","1","8"," ","x","1","9"," ","x","2","0"," ","x","2",
          "1"," ","x","2","2"," ","x","2","3"," ","x","2","4"," ","x","2","5"," ","x","2","6",
          " ","x","2","7"," ","x","2","8"," ","x","2","9">>,
     url |-> <<"h","t","t","p","s",":","/","/","n",".","e","x","a","m","p","l","e","/","t","w","e","n","t","y","-","c">>,
     source |-> <<"Q">>,
     publishedAt |-> "2024-07-02T08:00:00Z",
     keyword |-> "",
     queryUsed |-> "",
     searchQuery |-> ""]

\* two titles one letter apart: one token of two in common
BrexitDeal ==
    [title |-> <<"B","r","e","x","i","t"," ","d","e","a","l">>,
     description |-> <<>>,
     url |-> <<"h","t","t","p","s",":","/","/","n",".","e","x","a","m","p","l","e","/","d","e","a","l">>,
     source |-> <<"R">>,
     publishedAt |-> "2024-07-02T08:00:00Z",
     keyword |-> "",
     queryUsed |-> "",
     searchQuery |-> ""]

BrexitDear ==
    [title |-> <<"B","r","e","x","i","t"," ","d","e","a","r">>,
     description |-> <<>>,
     url |-> <<"h","t","t","p","s",":","/","/","n",".","e","x","a","m","p","l","e","/","d","e","a","r">>,
     source |-> <<"R">>,
     publishedAt |-> "2024-07-02T08:00:00Z",
     keyword |-> "",
     queryUsed |-> "",
     searchQuery |-> ""]

\* a title one letter longer than that of BrexitDeal
BrexitDealt ==
    [title |-> <<"B","r","e","x","i","t"," ","d","e","a","l","t">>,
     description |-> <<>>,
     url |-> <<"h","t","t","p","s",":","/","/","n",".","e","x","a","m","p","l","e","/","d","e","a","l","t">>,
     source |-> <<"R">>,
     publishedAt |-> "2024-07-02T08:00:00Z",
     keyword |-> "",
     queryUsed |-> "",
     searchQuery |-> ""]

\* a longer title holding every token of BrexitDeal
BrexitVote ==
    [title |-> <<"B","r","e","x","i","t"," ","d","e","a","l"," ","v","o","t","e"," ","d","e","l","a","y","e","d"," ","a","g","a","i","n">>,
     description |-> <<>>,
     url |-> <<"h","t","t","p","s",":","/","/","n",".","e","x","a","m","p","l","e","/","v","o","t","e">>,
     source |-> <<"R">>,
     publishedAt |-> "2024-07-02T08:00:00Z",
     keyword |-> "",
     queryUsed |-> "",
     searchQuery |-> ""]

\* two titles with the same two words of three letters or more and four
\* different words of two letters each
ShortUp ==
    [title |-> <<"U","p"," ","i","n"," ","a","n"," ","o","x"," ","M","a","r","s"," ","r","o","v","e","r">>,
     description |-> <<>>,
     url |-> <<"h","t","t","p","s",":","/","/","n",".","e","x","a","m","p","l","e","/","u","p">>,
     source |-> <<"S">>,
     publishedAt |-> "2024-07-02T08:00:00Z",
     keyword |-> "",
     queryUsed |-> "",
     searchQuery |-> ""]

ShortOn ==
    [title |-> <<"O","n"," ","t","o"," ","b","e"," ","i","t"," ","M","a","r","s"," ","r","o","v","e","r">>,
     description |-> <<>>,
     url |-> <<"h","t","t","p","s",":","/","/","n",".","e","x","a","m","p","l","e","/","o","n">>,
     source |-> <<"S">>,
     publishedAt |-> "2024-07-02T08:00:00Z",
     keyword |-> "",
     queryUsed |-> "",
     searchQuery |-> ""]

\* another story under the normalized URL of TenA
QuakeTenA ==
    [title |-> <<"Q","u","a","k","e"," ","h","i","t","s"," ","c","i","t","y">>,
     description |-> <<>>,
     url |-> <<"h","t","t","p","s",":","/","/","N",".","e","x","a","m","p","l","e","/","t","e","n","-","a","/">>,
     source |-> <<"S">>,
     publishedAt |-> "2024-07-02T08:00:00Z",
     keyword |-> "",
     queryUsed |-> "",
     searchQuery |-> ""]

\* two titles over one normalized description made of short words
AlphaOn ==
    [title |-> <<"A","l","p","h","a">>,
     description |-> <<"I","t"," ","i","s"," ","o","n">>,
     url |-> <<"h","t","t","p","s",":","/","/","n",".","e","x","a","m","p","l","e","/","a","l","p","h","a">>,
     source |-> <<"T">>,
     publishedAt |-> "2024-07-02T08:00:00Z",
     keyword |-> "",
     queryUsed |-> "",
     searchQuery |-> ""]

OmegaOn ==
    [title |-> <<"O","m","e","g","a">>,
     description |-> <<"i","t"," ","i","s"," ","O","N","!">>,
     url |-> <<"h","t","t","p","s",":","/","/","n",".","e","x","a","m","p","l","e","/","o","m","e","g","a">>,
     source |-> <<"T">>,
     publishedAt |-> "2024-07-02T08:00:00Z",
     keyword |-> "",
     queryUsed |-> "",
     searchQuery |-> ""]

\* one normalized title of two letters: no token in default mode
GoBang ==
    [title |-> <<"G","o","!">>,
     description |-> <<>>,
     url |-> <<"h","t","t","p","s",":","/","/","n",".","e","x","a","m","p","l","e","/","g","o","-","1">>,
     source |-> <<"U">>,
     publishedAt |-> "2024-07-02T08:00:00Z",
     keyword |-> "",
     queryUsed |-> "",
     searchQuery |-> ""]

GoPlain ==
    [title |-> <<"g","o">>,
     description |-> <<>>,
     url |-> <<"h","t","t","p","s",":","/","/","n",".","e","x","a","m","p","l","e","/","g","o","-","2">>,
     source |-> <<"U">>,
     publishedAt |-> "2024-07-02T08:00:00Z",
     keyword |-> "",
     queryUsed |-> "",
     searchQuery |-> ""]

\* another story under the description of MarsB
IceQuake ==
    [title |-> <<"Q","u","a","k","e"," ","h","i","t","s"," ","c","i","t","y">>,
     description |-> <<"W","a","t","e","r"," ","i","c","e"," ","w","a","s"," ","f","o","u","n","d"," ","b","y"," ","t","h","e"," ","r","o","v","e","r",".">>,
     url |-> <<"h","t","t","p","s",":","/","/","z",".","c","o","m","/","q","u","a","k","e">>,
     source |-> <<"K">>,
     publishedAt |-> "2024-07-01T12:00:00Z",
     keyword |-> "",
     queryUsed |-> "",
     searchQuery |-> ""]

HeadlinePool ==
    <<MarsA, MarsB, RoverC, AiTesting, AiTests, MarsX, Bridge, BigF, BigG, NoUrl, Blank,
      IceQuake>>

\* the records whose pairs the classifier is applied to
PairPool == <<TenA, TenB, TenC, TwentyA, TwentyB, TwentyC, BrexitDeal, BrexitDear,
              QuakeTenA, AlphaOn, OmegaOn, GoBang, GoPlain, BrexitDealt,
              BrexitVote, ShortUp, ShortOn>>

\* the excludeUrls request bodies: none, or one URL written twice
ExcludeUrlInputs ==
    { <<>>,
      << <<"h","t","t","p","s",":","/","/","x",".","c","o","m","/","a">>,
         <<" ","H","T","T","P","S",":","/","/","X",".","c","o","m","/","a","/"," ">> >> }

\* ------------------------------------------------------------------------
\* State of one run
\* ------------------------------------------------------------------------
VARIABLES
    dedupeOptions,        \* route.ts 1861 : the DedupeOptions of the run
    aggregatedHeadlines,  \* the cluster list of the run
    offered,      \* history: the records offered so far, in arrival order
    paths,        \* history: the path each call took
    returned,     \* history: the value each call returned
    firstSeen,    \* history: the record that created each cluster
    matched,      \* history: the clusters the last record was a near duplicate of
    pair,         \* the two candidates handed to areHeadlinesNearDuplicate
    verdict,      \* its return value: "pending", "duplicate" or "distinct"
    candidateCache,  \* createHeadlineCandidate of every record of the pool
    limit,             \* route.ts 1850 : resolveLimit(body.limit)
    pc,                \* where the handler stands
    nowReadings,       \* the values Date.now() returned to computeRecencyScore, in call order
    rankedCandidates,  \* route.ts 2541
    topRanked,         \* route.ts 2542
    results,       \* the articles the news API holds for each search query, in its order
    searchIndex,   \* the place of searchEntry in searchQueries (route.ts 2209)
    page,          \* route.ts 2221
    pageSize,      \* route.ts 2253
    pending,       \* data.articles of the page: the articles the for loop has not reached
    addedByQuery,  \* route.ts 2223
    addedThisPage, \* route.ts 2306
    previousRun,   \* history: what the run before this one aggregated, read and ranked
    rssFeeds,         \* route.ts 1912 : normalizeRssFeeds(body.rssFeeds)
    searchQueries,    \* route.ts 2002 : the search entries of the request, in order
    feedIndex,        \* the place of feedUrl in rssFeeds (route.ts 2114)
    rssAdded,         \* route.ts 2112
    trace,            \* history: the upstream requests, their answers, the offers to
                      \* aggregatedHeadlines and the paths they took
    queriesAttempted, \* route.ts 2081
    queryWarnings,    \* route.ts 2082
    successfulQueries,        \* route.ts 2083
    querySucceeded,           \* route.ts 2222
    maxForQuery,              \* route.ts 2225
    remainingFallbackQueries, \* route.ts 2088
    receivedCount,            \* route.ts 2366
    pages,                    \* history: one entry for each page requested from the news API
    aggregatedData,           \* the object each cluster of aggregatedHeadlines holds as data
    keywordHeadlineResults    \* route.ts 2091 : the KeywordAggregations, in keywordOrder

dedupeVars == <<dedupeOptions, aggregatedHeadlines, offered, paths, returned, firstSeen, matched,
                candidateCache>>

pairVars == <<pair, verdict>>

rankVars == <<limit, pc, nowReadings, rankedCandidates, topRanked>>

queryVars == <<results, searchIndex, page, pageSize, pending, addedByQuery, addedThisPage>>

requestVars == <<rssFeeds, searchQueries>>

feedVars == <<feedIndex, rssAdded>>

reportVars == <<queriesAttempted, queryWarnings, successfulQueries>>

quotaVars == <<querySucceeded, maxForQuery, remainingFallbackQueries, receivedCount>>

keywordVars == <<aggregatedData, keywordHeadlineResults>>

handlerVars == <<requestVars, feedVars, reportVars, quotaVars, keywordVars, trace, pages>>

routeVars == <<previousRun, handlerVars>>

vars == <<dedupeVars, pairVars, rankVars, queryVars, routeVars>>

\* createHeadlineCandidate is a pure function of the record and the mode: its
\* values on the records of the pool are computed once, when the run starts,
\* and looked up by every call
CandidatesOfPool(mode) ==
    AsTuple([i \in 1..Len(HeadlinePool) |->
                createHeadlineCandidate(HeadlinePool[i], [mode |-> mode, excludedUrls |-> {}])])

CachedHeadlineCandidate(headline, options) ==
    candidateCache[CHOOSE i \in 1..Len(candidateCache) : candidateCache[i].data = headline]

\* buildTokenSet looked up in the same way, by the title and description
CachedTokenSet(title, description, mode) ==
    candidateCache[CHOOSE i \in 1..Len(candidateCache) :
                       /\ candidateCache[i].data.title = title
                       /\ candidateCache[i].data.description = description].tokenSet

\* ------------------------------------------------------------------------
\* route.ts 427-471 : normalizeExcludeUrls (Array input)
\* ------------------------------------------------------------------------
RECURSIVE NormalizeExcludeEntries(_, _, _)
NormalizeExcludeEntries(entries, k, normalized) ==
    IF k > Len(entries) THEN normalized
    ELSE LET trimmed == trim(entries[k])
             normalizedUrl == normalizeUrlForComparison(trimmed)
         IN  IF trimmed = <<>> \/ normalizedUrl = <<>>
                \/ (\E i \in 1..Len(normalized) : normalized[i] = normalizedUrl)
             THEN NormalizeExcludeEntries(entries, k + 1, normalized)
             ELSE IF Len(normalized) + 1 >= MAX_EXCLUDE_URLS
                  THEN Append(normalized, normalizedUrl)
                  ELSE NormalizeExcludeEntries(entries, k + 1, Append(normalized, normalizedUrl))

normalizeExcludeUrls(raw) == NormalizeExcludeEntries(raw, 1, <<>>)

\* route.ts 1861, 1933-1935 : the DedupeOptions of one run; an absent
\* excludedUrls is the empty set
DedupeOptionsOf(mode, rawExcludeUrls) ==
    LET excludeUrls == normalizeExcludeUrls(rawExcludeUrls)
    IN  [mode |-> mode, excludedUrls |-> {excludeUrls[i] : i \in 1..Len(excludeUrls)}]

\* ------------------------------------------------------------------------
\* route.ts 1423-1490 : addHeadlineIfUnique
\* ------------------------------------------------------------------------
\* route.ts 1472-1478 : the RelatedArticle pushed for a merged record
RelatedArticleOf(candidate) ==
    [title |-> candidate.title,
     description |-> candidate.description,
     url |-> candidate.url,
     source |-> candidate.source,
     publishedAt |-> candidate.publishedAt]

\* the scan keeping the last match instead of stopping at the first
LastDuplicateIndex(aggregated, enriched, options) ==
    LET duplicates == {k \in 1..Len(aggregated) :
                           areHeadlinesNearDuplicate(aggregated[k], enriched, options)}
    IN  IF duplicates = {} THEN 0 ELSE CHOOSE k \in duplicates : \A i \in duplicates : k >= i

\* the scan starting at the second cluster of the list
DuplicateIndexAfterFirst(aggregated, enriched, options) ==
    LET duplicates == {k \in 2..Len(aggregated) :
                           areHeadlinesNearDuplicate(aggregated[k], enriched, options)}
    IN  IF duplicates = {} THEN 0 ELSE CHOOSE k \in duplicates : \A i \in duplicates : k <= i

\* route.ts 1438-1439 : the for loop; the index of the first cluster that is
\* a near duplicate of the enriched record, or 0
FirstDuplicateIndex(aggregated, enriched, options) ==
    LET duplicates == {k \in 1..Len(aggregated) :
                           areHeadlinesNearDuplicate(aggregated[k], enriched, options)}
    IN  IF duplicates = {} THEN 0 ELSE CHOOSE k \in duplicates : \A i \in duplicates : k <= i

\* the guard left out: a duplicate is merged whatever its URL
UrlGuardOmitted(existing, candidate) == FALSE

\* the guard looking at the primary's URL only, not at the related articles
UrlGuardPrimaryOnly(existing, candidate) ==
    LET normalizedCandidateUrl == normalizeUrlForComparison(candidate.url)
    IN  /\ normalizedCandidateUrl # <<>>
        /\ normalizedCandidateUrl = existing.normalizedUrl

\* route.ts 1440-1450 : the record's URL is already held by the cluster
IsUrlAlreadyInCluster(existing, candidate) ==
    LET normalizedCandidateUrl == normalizeUrlForComparison(candidate.url)
    IN  /\ normalizedCandidateUrl # <<>>
        /\ \/ normalizedCandidateUrl = existing.normalizedUrl
           \/ \E r \in 1..Len(existing.related) :
                  normalizeUrlForComparison(existing.related[r].url) = normalizedCandidateUrl

\* the merge letting the newer record take over the primary's own fields
MergeReplacingPrimary(existing, candidate, enriched) ==
    [existing EXCEPT
        !.data = candidate,
        !.normalizedDescription = normalizeHeadlineText(candidate.description),
        !.related = Append(@, RelatedArticleOf(candidate)),
        !.tokenSet = @ \cup enriched.tokenSet]

\* the merge without the loop of lines 1480-1482 over the record's tokens
MergeKeepingTokens(existing, candidate, enriched) ==
    LET longer == /\ candidate.description # <<>>
                  /\ Len(candidate.description) > Len(existing.data.description)
    IN  [existing EXCEPT
            !.data.description = IF longer THEN candidate.description ELSE @,
            !.normalizedDescription =
                IF longer THEN normalizeHeadlineText(candidate.description) ELSE @,
            !.data.keyword = IF candidate.keyword # "" /\ @ = "" THEN candidate.keyword ELSE @,
            !.data.queryUsed =
                IF candidate.queryUsed # "" /\ @ = "" THEN candidate.queryUsed ELSE @,
            !.data.searchQuery =
                IF candidate.searchQuery # "" /\ @ = "" THEN candidate.searchQuery ELSE @,
            !.related = Append(@, RelatedArticleOf(candidate))]

\* the merge letting a non-empty incoming provenance field replace the primary's
MergeOverwritingProvenance(existing, candidate, enriched) ==
    LET longer == /\ candidate.description # <<>>
                  /\ Len(candidate.description) > Len(existing.data.description)
    IN  [existing EXCEPT
            !.data.description = IF longer THEN candidate.description ELSE @,
            !.normalizedDescription =
                IF longer THEN normalizeHeadlineText(candidate.description) ELSE @,
            !.data.keyword = IF candidate.keyword # "" THEN candidate.keyword ELSE @,
            !.data.queryUsed = IF candidate.queryUsed # "" THEN candidate.queryUsed ELSE @,
            !.data.searchQuery = IF candidate.searchQuery # "" THEN candidate.searchQuery ELSE @,
            !.related = Append(@, RelatedArticleOf(candidate)),
            !.tokenSet = @ \cup enriched.tokenSet]

\* the merge taking an incoming description that is at least as long
MergeDescriptionNotShorter(existing, candidate, enriched) ==
    LET longer == /\ candidate.description # <<>>
                  /\ Len(candidate.description) >= Len(existing.data.description)
    IN  [existing EXCEPT
            !.data.description = IF longer THEN candidate.description ELSE @,
            !.normalizedDescription =
                IF longer THEN normalizeHeadlineText(candidate.description) ELSE @,
            !.data.keyword = IF candidate.keyword # "" /\ @ = "" THEN candidate.keyword ELSE @,
            !.data.queryUsed =
                IF candidate.queryUsed # "" /\ @ = "" THEN candidate.queryUsed ELSE @,
            !.data.searchQuery =
                IF candidate.searchQuery # "" /\ @ = "" THEN candidate.searchQuery ELSE @,
            !.related = Append(@, RelatedArticleOf(candidate)),
            !.tokenSet = @ \cup enriched.tokenSet]

\* route.ts 1452-1482 : the merge of a duplicate into the existing cluster
MergeIntoCluster(existing, candidate, enriched) ==
    LET longer == /\ candidate.description # <<>>
                  /\ Len(candidate.description) > Len(existing.data.description)
    IN  [existing EXCEPT
            !.data.description = IF longer THEN candidate.description ELSE @,
            !.normalizedDescription =
                IF longer THEN normalizeHeadlineText(candidate.description) ELSE @,
            !.data.keyword = IF candidate.keyword # "" /\ @ = "" THEN candidate.keyword ELSE @,
            !.data.queryUsed =
                IF candidate.queryUsed # "" /\ @ = "" THEN candidate.queryUsed ELSE @,
            !.data.searchQuery =
                IF candidate.searchQuery # "" /\ @ = "" THEN candidate.searchQuery ELSE @,
            !.related = Append(@, RelatedArticleOf(candidate)),
            !.tokenSet = @ \cup enriched.tokenSet]

\* the check looking up the record's URL as written, not its normalized form
IsExcludedByRawUrl(enriched, options) ==
    /\ enriched.data.url # <<>>
    /\ enriched.data.url \in options.excludedUrls

\* route.ts 1430-1436 : the record's normalized URL is one the run excludes
IsExcludedUrl(enriched, options) ==
    /\ enriched.normalizedUrl # <<>>
    /\ enriched.normalizedUrl \in options.excludedUrls

\* the new list, the return value and the path taken
addHeadlineIfUnique(aggregated, candidate, options) ==
    LET enriched == CachedHeadlineCandidate(candidate, options)
    IN  IF IsExcludedUrl(enriched, options)
        THEN [aggregated |-> aggregated, result |-> FALSE, path |-> "excluded"]
        ELSE LET k == FirstDuplicateIndex(aggregated, enriched, options)
             IN  IF k = 0
                 THEN [aggregated |-> Append(aggregated, enriched),
                       result |-> TRUE, path |-> "created"]
                 ELSE IF IsUrlAlreadyInCluster(aggregated[k], candidate)
                 THEN [aggregated |-> aggregated, result |-> FALSE, path |-> "same-url"]
                 ELSE [aggregated |->
                           [aggregated EXCEPT
                               ![k] = MergeIntoCluster(aggregated[k], candidate, enriched)],
                       result |-> FALSE, path |-> "merged"]

\* ------------------------------------------------------------------------
\* Scores.  The ranker's floats are kept as exact fractions in lowest terms,
\* so that two scores are the same number exactly when they are the same
\* record; sums and comparisons go through the least common denominator.
\* ------------------------------------------------------------------------
RECURSIVE GCD(_, _)
GCD(a, b) == IF b = 0 THEN a ELSE GCD(b, a % b)

\* n / d in lowest terms, for n >= 0 and d > 0
Frac(n, d) == [num |-> n \div GCD(n, d), den |-> d \div GCD(n, d)]

FracLCD(x, y) == (x.den \div GCD(x.den, y.den)) * y.den

FracAdd(x, y) ==
    Frac(x.num * (FracLCD(x, y) \div x.den) + y.num * (FracLCD(x, y) \div y.den),
         FracLCD(x, y))

\* x * w / 100 for an integer weight w given in hundredths
FracWeighted(x, w) == Frac(x.num * w, x.den * 100)

FracLess(x, y) ==
    x.num * (FracLCD(x, y) \div x.den) < y.num * (FracLCD(x, y) \div y.den)

FracAtLeast(x, y) == ~FracLess(x, y)

FracAtMost(x, y) == ~FracLess(y, x)

\* Math.min on two fractions
FracMin(x, y) == IF FracLess(y, x) THEN y ELSE x

\* route.ts 1155-1160 : the weights in hundredths and the full-score references
RANKING_RECENCY_WEIGHT == 45

RANKING_SOURCE_WEIGHT == 20

RANKING_TOPIC_WEIGHT == 20

RANKING_CLUSTER_WEIGHT == 25

CLUSTER_SIZE_FULL_SCORE == 8

CLUSTER_SOURCES_FULL_SCORE == 5

\* ------------------------------------------------------------------------
\* route.ts 1492-1511 : computeRecencyScore
\* Time is counted in whole hours from 2024-07-01T00:00:00Z.  Date.parse is
\* the table of the timestamps the records carry; any other string is not a
\* date (NaN).
\* ------------------------------------------------------------------------
KnownDates ==
    << <<"2024-07-01T00:00:00Z", 0>>,   <<"2024-07-01T08:00:00Z", 8>>,
       <<"2024-07-01T09:00:00Z", 9>>,   <<"2024-07-01T10:00:00Z", 10>>,
       <<"2024-07-01T11:00:00Z", 11>>,  <<"2024-07-01T12:00:00Z", 12>>,
       <<"2024-07-01T13:00:00Z", 13>>,  <<"2024-07-01T14:00:00Z", 14>>,
       <<"2024-07-01T15:00:00Z", 15>>,  <<"2024-07-01T16:00:00Z", 16>>,
       <<"2024-07-01T17:00:00Z", 17>>,  <<"2024-07-01T18:00:00Z", 18>>,
       <<"2024-07-01T20:00:00Z", 20>>,  <<"2024-07-02T08:00:00Z", 32>>,
       <<"2024-07-04T10:00:00Z", 82>>,  <<"2024-07-04T18:00:00Z", 90>>,
       <<"2024-07-05T05:00:00Z", 101>>, <<"2024-07-05T06:00:00Z", 102>> >>

\* Date.parse(publishedAt): isNaN, or the time in hours
DateParse(publishedAt) ==
    IF \E i \in 1..Len(KnownDates) : KnownDates[i][1] = publishedAt
    THEN [isNaN |-> FALSE,
          time |-> KnownDates[CHOOSE i \in 1..Len(KnownDates) :
                                  KnownDates[i][1] = publishedAt][2]]
    ELSE [isNaN |-> TRUE, time |-> 0]

\* ageHours: null
NullAge == -1

\* route.ts 1507 : const maxHours = 72
maxHours == 72

\* the recency score without the Math.max(0, ...) of line 1506
RecencyOfSignedAge(publishedAt, now) ==
    IF publishedAt = "" \/ DateParse(publishedAt).isNaN
    THEN [score |-> FracZero, ageHours |-> NullAge]
    ELSE IF now - DateParse(publishedAt).time >= 0
    THEN [score |-> Frac(maxHours - Min(now - DateParse(publishedAt).time, maxHours), maxHours),
          ageHours |-> now - DateParse(publishedAt).time]
    ELSE [score |-> Frac(maxHours + (DateParse(publishedAt).time - now), maxHours),
          ageHours |-> 0]

\* the recency score growing with the age instead of decaying
RecencyGrowingWithAge(publishedAt, now) ==
    IF publishedAt = "" \/ DateParse(publishedAt).isNaN
    THEN [score |-> FracZero, ageHours |-> NullAge]
    ELSE [score |-> Frac(Min(Max(0, now - DateParse(publishedAt).time), maxHours), maxHours),
          ageHours |-> Max(0, now - DateParse(publishedAt).time)]

\* now is the value Date.now() returns to this call
computeRecencyScore(publishedAt, now) ==
    IF publishedAt = "" \/ DateParse(publishedAt).isNaN
    THEN [score |-> FracZero, ageHours |-> NullAge]
    ELSE [score |-> Frac(maxHours - Min(Max(0, now - DateParse(publishedAt).time), maxHours),
                         maxHours),
          ageHours |-> Max(0, now - DateParse(publishedAt).time)]

\* ------------------------------------------------------------------------
\* route.ts 1513-1522 : computeSourceDiversityScore
\* ------------------------------------------------------------------------
computeSourceDiversityScore(occurrences) ==
    IF occurrences <= 0 THEN [score |-> FracZero]
    ELSE [score |-> Frac(1, occurrences)]

\* ------------------------------------------------------------------------
\* route.ts 1524-1541 : computeTopicCoverageScore
\* tokenFrequency is a function from the tokens of the run to their counts
\* ------------------------------------------------------------------------
computeTopicCoverageScore(tokenSet, tokenFrequency) ==
    IF Cardinality(tokenSet) = 0 THEN [score |-> FracZero, ratio |-> FracZero]
    ELSE [score |-> Frac(Cardinality({token \in tokenSet : tokenFrequency[token] <= 1}),
                         Max(1, Cardinality(tokenSet))),
          ratio |-> Frac(Cardinality({token \in tokenSet : tokenFrequency[token] <= 1}),
                         Max(1, Cardinality(tokenSet)))]

\* ------------------------------------------------------------------------
\* route.ts 1543-1583 : computeClusterSupportScore
\* ------------------------------------------------------------------------
UnknownSource == <<"u","n","k","n","o","w","n">>

\* route.ts 1553-1554, 1557-1558, 1632 : source.trim().toLowerCase() || 'unknown'
SourceKey(source) ==
    IF toLowerCase(trim(source)) = <<>> THEN UnknownSource ELSE toLowerCase(trim(source))

\* route.ts 1551-1561 : the Set of the source keys of the primary and the related articles
ClusterSources(candidate) ==
    {SourceKey(candidate.data.source)} \cup
    {SourceKey(candidate.related[r].source) : r \in 1..Len(candidate.related)}

\* route.ts 1563-1578 : Math.min(1, (count - 1) / (fullScore - 1)), or the 0/1
\* step when fullScore <= 1
NormalizedAgainst(count, fullScore) ==
    IF fullScore <= 1 THEN (IF count > 1 THEN FracOne ELSE FracZero)
    ELSE FracMin(FracOne, Frac(count - 1, fullScore - 1))

\* the members and sources counted against the references themselves:
\* count / fullScore instead of (count - 1) / (fullScore - 1)
SupportOfPlainRatios(candidate) ==
    [score |-> FracMin(FracOne,
                   FracWeighted(
                       FracAdd(FracMin(FracOne, Frac(Max(1, Len(candidate.related) + 1),
                                                     CLUSTER_SIZE_FULL_SCORE)),
                               FracMin(FracOne, Frac(Cardinality(ClusterSources(candidate)),
                                                     CLUSTER_SOURCES_FULL_SCORE))),
                       50)),
     clusterSize |-> Max(1, Len(candidate.related) + 1),
     clusterUniqueSources |-> Cardinality(ClusterSources(candidate))]

computeClusterSupportScore(candidate) ==
    [score |-> FracMin(FracOne,
                   FracWeighted(
                       FracAdd(NormalizedAgainst(Max(1, Len(candidate.related) + 1),
                                                 CLUSTER_SIZE_FULL_SCORE),
                               NormalizedAgainst(Cardinality(ClusterSources(candidate)),
                                                 CLUSTER_SOURCES_FULL_SCORE)),
                       50)),
     clusterSize |-> Max(1, Len(candidate.related) + 1),
     clusterUniqueSources |-> Cardinality(ClusterSources(candidate))]

\* ------------------------------------------------------------------------
\* route.ts 1585-1619 : buildRankingReasons
\* ------------------------------------------------------------------------
\* route.ts 1588-1596
RecencyReasons(metadata) ==
    IF metadata.details.ageHours = NullAge THEN <<>>
    ELSE IF FracAtLeast(metadata.components.recency, [num |-> 3, den |-> 4])
    THEN <<"Published within the last 18 hours">>
    ELSE IF FracAtLeast(metadata.components.recency, [num |-> 1, den |-> 2])
    THEN <<"Published recently">>
    ELSE IF FracAtMost(metadata.components.recency, [num |-> 1, den |-> 10])
    THEN <<"Older coverage">>
    ELSE <<>>

\* route.ts 1598-1602
SourceReasons(metadata) ==
    IF FracAtLeast(metadata.components.sourceDiversity, [num |-> 3, den |-> 4])
    THEN <<"Unique source in this set">>
    ELSE IF FracAtMost(metadata.components.sourceDiversity, [num |-> 1, den |-> 4])
    THEN <<"Source appears multiple times">>
    ELSE <<>>

\* route.ts 1604-1608
TopicReasons(metadata) ==
    IF FracAtLeast(metadata.components.topicCoverage, [num |-> 3, den |-> 5])
    THEN <<"Adds distinct topic details">>
    ELSE IF FracAtMost(metadata.components.topicCoverage, [num |-> 1, den |-> 5])
    THEN <<"Overlaps heavily with other articles">>
    ELSE <<>>

\* route.ts 1610-1616
ClusterReasons(metadata) ==
    IF FracAtLeast(metadata.components.clusterSupport, [num |-> 3, den |-> 5])
    THEN <<"Covered by many outlets">>
    ELSE IF FracAtLeast(metadata.components.clusterSupport, [num |-> 3, den |-> 10])
    THEN <<"Multiple supporting reports">>
    ELSE IF metadata.details.clusterSize <= 1
    THEN <<"Limited supporting coverage">>
    ELSE <<>>

\* the recency checks as separate ifs: a fresh article gets both recency lines
ReasonsWithRepeatedRecency(metadata) ==
    (IF metadata.details.ageHours # NullAge
        /\ FracAtLeast(metadata.components.recency, [num |-> 3, den |-> 4])
     THEN <<"Published within the last 18 hours">> ELSE <<>>)
    \o (IF metadata.details.ageHours # NullAge
           /\ FracAtLeast(metadata.components.recency, [num |-> 1, den |-> 2])
        THEN <<"Published recently">> ELSE <<>>)
    \o SourceReasons(metadata) \o TopicReasons(metadata) \o ClusterReasons(metadata)

buildRankingReasons(metadata) ==
    RecencyReasons(metadata) \o SourceReasons(metadata)
        \o TopicReasons(metadata) \o ClusterReasons(metadata)

\* ------------------------------------------------------------------------
\* route.ts 1621-1701 : rankHeadlineCandidates
\* ------------------------------------------------------------------------
\* the occurrences counted while the list is walked: only the clusters up to
\* this one
OccurrencesSoFar(candidates, index) ==
    Cardinality({j \in 1..index :
                     SourceKey(candidates[j].data.source)
                         = SourceKey(candidates[index].data.source)})

\* route.ts 1631-1633, 1641-1642 : sourceFrequency.get(sourceKey) once the
\* forEach has counted every candidate
SourceOccurrences(candidates, index) ==
    Cardinality({j \in 1..Len(candidates) :
                     SourceKey(candidates[j].data.source)
                         = SourceKey(candidates[index].data.source)})

\* route.ts 1635-1637 : tokenFrequency once the forEach has counted every candidate
TokenFrequency(candidates) ==
    [token \in UNION {candidates[j].tokenSet : j \in 1..Len(candidates)} |->
        Cardinality({j \in 1..Len(candidates) : token \in candidates[j].tokenSet})]

\* route.ts 1649-1653 : the weighted sum
WeightedScore(recency, source, topic, cluster) ==
    FracAdd(FracAdd(FracWeighted(recency, RANKING_RECENCY_WEIGHT),
                    FracWeighted(source, RANKING_SOURCE_WEIGHT)),
            FracAdd(FracWeighted(topic, RANKING_TOPIC_WEIGHT),
                    FracWeighted(cluster, RANKING_CLUSTER_WEIGHT)))

\* route.ts 1655-1671 : metadata, with reasons: []
RankingMetadata(recency, source, topic, cluster, sourceOccurrences) ==
    [score |-> WeightedScore(recency.score, source.score, topic.score, cluster.score),
     components |-> [recency |-> recency.score,
                     sourceDiversity |-> source.score,
                     topicCoverage |-> topic.score,
                     clusterSupport |-> cluster.score],
     details |-> [ageHours |-> recency.ageHours,
                  sourceOccurrences |-> sourceOccurrences,
                  uniqueTokenRatio |-> topic.ratio,
                  clusterSize |-> cluster.clusterSize,
                  clusterUniqueSources |-> cluster.clusterUniqueSources],
     reasons |-> <<>>]

\* route.ts 1673 : metadata.reasons = buildRankingReasons(metadata)
WithReasons(metadata) == [metadata EXCEPT !.reasons = buildRankingReasons(metadata)]

\* route.ts 1640-1680 : the callback of candidates.map, for the candidate at
\* index; now is what Date.now() returns during this call
ScoreCandidate(candidates, index, now, tokenFrequency) ==
    [candidate |-> candidates[index],
     ranking |-> WithReasons(RankingMetadata(
                     computeRecencyScore(candidates[index].data.publishedAt, now),
                     computeSourceDiversityScore(SourceOccurrences(candidates, index)),
                     computeTopicCoverageScore(candidates[index].tokenSet, tokenFrequency),
                     computeClusterSupportScore(candidates[index]),
                     SourceOccurrences(candidates, index))),
     index |-> index]

\* the comparator putting the lower score first
CompareAscendingScore(a, b) ==
    IF b.ranking.score # a.ranking.score
    THEN (IF FracLess(a.ranking.score, b.ranking.score) THEN -1 ELSE 1)
    ELSE IF a.ranking.details.ageHours # b.ranking.details.ageHours
    THEN (IF a.ranking.details.ageHours # NullAge
             /\ (b.ranking.details.ageHours = NullAge
                 \/ a.ranking.details.ageHours < b.ranking.details.ageHours)
          THEN -1 ELSE 1)
    ELSE IF a.index < b.index THEN -1 ELSE IF a.index > b.index THEN 1 ELSE 0

\* the comparator without lines 1687-1695: ties go to the arrival index
CompareWithoutAge(a, b) ==
    IF b.ranking.score # a.ranking.score
    THEN (IF FracLess(b.ranking.score, a.ranking.score) THEN -1 ELSE 1)
    ELSE IF a.index < b.index THEN -1 ELSE IF a.index > b.index THEN 1 ELSE 0

\* route.ts 1682-1698 : the comparator handed to sort, as the sign of its
\* result.  A null age is Number.POSITIVE_INFINITY: the two normalized ages
\* differ unless the ages are equal or both null, and a null age is the larger.
CompareScored(a, b) ==
    IF b.ranking.score # a.ranking.score
    THEN (IF FracLess(b.ranking.score, a.ranking.score) THEN -1 ELSE 1)
    ELSE IF a.ranking.details.ageHours # b.ranking.details.ageHours
    THEN (IF a.ranking.details.ageHours # NullAge
             /\ (b.ranking.details.ageHours = NullAge
                 \/ a.ranking.details.ageHours < b.ranking.details.ageHours)
          THEN -1 ELSE 1)
    ELSE IF a.index < b.index THEN -1 ELSE IF a.index > b.index THEN 1 ELSE 0

\* Array.prototype.sort: the comparator is a total order on entries of
\* distinct index, so the sorted array is the one arrangement it allows; an
\* entry's position is one more than the number of entries that precede it
SortedPosition(scored, i) ==
    1 + Cardinality({j \in 1..Len(scored) : CompareScored(scored[j], scored[i]) < 0})

SortScored(scored) ==
    AsTuple([p \in 1..Len(scored) |->
                scored[CHOOSE i \in 1..Len(scored) : SortedPosition(scored, i) = p]])

\* route.ts 1640 : candidates.map(...)
ScoreCandidates(candidates, nows, tokenFrequency) ==
    AsTuple([i \in 1..Len(candidates) |->
                ScoreCandidate(candidates, i, nows[i], tokenFrequency)])

\* route.ts 1700 : scored.map(({ index: _index, ...rest }) => rest)
WithoutIndex(sorted) ==
    AsTuple([p \in 1..Len(sorted) |->
                [candidate |-> sorted[p].candidate, ranking |-> sorted[p].ranking]])

\* nows[i] is what Date.now() returns while the i-th candidate is scored
rankHeadlineCandidates(candidates, nows) ==
    IF Len(candidates) = 0 THEN <<>>
    ELSE WithoutIndex(SortScored(ScoreCandidates(candidates, nows, TokenFrequency(candidates))))

\* route.ts 2542 : rankedCandidates.slice(0, limit)
SliceTop(ranked, end) == SubSeq(ranked, 1, Min(end, Len(ranked)))

\* ------------------------------------------------------------------------
\* The parts of the state a specification does not use
\* ------------------------------------------------------------------------
\* route.ts 9 : the limit of a request that names none
DEFAULT_LIMIT == 5

\* no ranking has started
RankingIdle ==
    /\ limit = DEFAULT_LIMIT
    /\ pc = "aggregating"
    /\ nowReadings = <<>>
    /\ rankedCandidates = <<>>
    /\ topRanked = <<>>

\* no search query has started
QueryIdle ==
    /\ results = <<>>
    /\ searchIndex = 1
    /\ page = 1
    /\ pageSize = 0
    /\ pending = <<>>
    /\ addedByQuery = 0
    /\ addedThisPage = 0

\* the handler has requested nothing and reported nothing
HandlerIdle ==
    /\ feedIndex = 1
    /\ rssAdded = 0
    /\ trace = <<>>
    /\ queriesAttempted = <<>>
    /\ queryWarnings = <<>>
    /\ successfulQueries = 0
    /\ querySucceeded = FALSE
    /\ maxForQuery = 0
    /\ remainingFallbackQueries = 0
    /\ receivedCount = 0
    /\ pages = <<>>
    /\ aggregatedData = <<>>
    /\ keywordHeadlineResults = <<>>

\* the first run, no request read yet
RouteIdle ==
    /\ previousRun = <<>>
    /\ rssFeeds = <<>>
    /\ searchQueries = <<>>
    /\ HandlerIdle

\* no pair has been handed to the classifier
PairIdle ==
    /\ pair = <<>>
    /\ verdict = "pending"

Init ==
    /\ dedupeOptions \in {DedupeOptionsOf(mode, raw) : mode \in DedupeModes, raw \in ExcludeUrlInputs}
    /\ aggregatedHeadlines = <<>>
    /\ offered = <<>>
    /\ paths = <<>>
    /\ returned = <<>>
    /\ firstSeen = <<>>
    /\ matched = {}
    /\ candidateCache = CandidatesOfPool(dedupeOptions.mode)
    /\ PairIdle
    /\ RankingIdle
    /\ QueryIdle
    /\ RouteIdle

\* one call addHeadlineIfUnique(aggregatedHeadlines, candidate, dedupeOptions)
AddHeadline(candidate) ==
    /\ Len(offered) < MaxOffers
    /\ \E outcome \in {addHeadlineIfUnique(aggregatedHeadlines, candidate, dedupeOptions)} :
           /\ aggregatedHeadlines' = outcome.aggregated
           /\ offered' = Append(offered, candidate)
           /\ paths' = Append(paths, outcome.path)
           /\ returned' = Append(returned, outcome.result)
           /\ firstSeen' = IF outcome.result THEN Append(firstSeen, candidate) ELSE firstSeen
    /\ \E enriched \in {CachedHeadlineCandidate(candidate, dedupeOptions)} :
           matched' = {k \in 1..Len(aggregatedHeadlines) :
                          areHeadlinesNearDuplicate(aggregatedHeadlines[k], enriched, dedupeOptions)}
    /\ UNCHANGED <<dedupeOptions, candidateCache, pairVars, routeVars, rankVars, queryVars>>

Next == \E i \in 1..Len(HeadlinePool) : AddHeadline(HeadlinePool[i])

Spec == Init /\ [][Next]_vars

\* ------------------------------------------------------------------------
\* The classifier alone: two candidates built from records in one mode
\* ------------------------------------------------------------------------
PairInit ==
    /\ dedupeOptions \in {DedupeOptionsOf(mode, <<>>) : mode \in DedupeModes}
    /\ pair \in {<<createHeadlineCandidate(PairPool[i], dedupeOptions),
                    createHeadlineCandidate(PairPool[j], dedupeOptions)>> :
                      i \in 1..Len(PairPool), j \in 1..Len(PairPool)}
    /\ verdict = "pending"
    /\ aggregatedHeadlines = <<>>
    /\ offered = <<>>
    /\ paths = <<>>
    /\ returned = <<>>
    /\ firstSeen = <<>>
    /\ matched = {}
    /\ candidateCache = <<>>
    /\ RankingIdle
    /\ QueryIdle
    /\ RouteIdle

\* one call areHeadlinesNearDuplicate(a, b, options)
ClassifyPair ==
    /\ verdict = "pending"
    /\ verdict' = IF areHeadlinesNearDuplicate(pair[1], pair[2], dedupeOptions)
                  THEN "duplicate" ELSE "distinct"
    /\ UNCHANGED <<dedupeVars, pair, rankVars, queryVars, routeVars>>

PairNext == ClassifyPair

PairSpec == PairInit /\ [][PairNext]_vars

\* ------------------------------------------------------------------------
\* The ranker alone: clusters as aggregation may leave them, ranked and cut
\* ------------------------------------------------------------------------
MaxRanked == 4

\* route.ts 1098-1105 : a HeadlineCandidate with the fields the ranker reads
\* (source, publishedAt, tokenSet and the related articles' sources) as given
ClusterOf(source, publishedAt, tokenSet, relatedSources) ==
    [data |-> [title |-> <<"M","a","r","s"," ","r","o","v","e","r">>,
               description |-> <<>>,
               url |-> <<>>,
               source |-> source,
               publishedAt |-> publishedAt,
               keyword |-> "",
               queryUsed |-> "",
               searchQuery |-> ""],
     normalizedUrl |-> <<>>,
     normalizedTitle |-> <<"m","a","r","s"," ","r","o","v","e","r">>,
     tokenSet |-> tokenSet,
     normalizedDescription |-> <<>>,
     related |-> AsTuple([r \in 1..Len(relatedSources) |->
                             [title |-> <<"M","a","r","s">>,
                              description |-> <<>>,
                              url |-> <<>>,
                              source |-> relatedSources[r],
                              publishedAt |-> ""]])]

Wire == <<"W","i","r","e">>

WirePadded == <<"W","I","R","E"," ">>

WireLower == <<"w","i","r","e">>

Post == <<"P","o","s","t">>

Echo == <<"E","c","h","o">>

Star == <<"S","t","a","r">>

Sun == <<"S","u","n">>

MarsTokens == {<<"m","a","r","s">>, <<"r","o","v","e","r">>}

\* two clusters alike but for the date: 100 and 80 hours before the clock's
\* earliest reading; two members from one source
Old100 == ClusterOf(Wire, "2024-07-01T00:00:00Z", MarsTokens \cup {<<"o","l","d">>}, <<WireLower>>)

Old80 == ClusterOf(Wire, "2024-07-01T20:00:00Z", MarsTokens \cup {<<"o","l","d">>}, <<WireLower>>)

\* the same outlet and as many tokens of its own, without a date: the empty
\* string, and a string that is no date (under a source written differently)
NoDate == ClusterOf(Wire, "", MarsTokens \cup {<<"v","o","t","e">>}, <<WireLower>>)

BadDate == ClusterOf(WirePadded, "yesterday", MarsTokens \cup {<<"p","o","l","l">>}, <<WireLower>>)

\* two clusters alike but for the date, one and two hours after the clock's
\* earliest reading; no source, no tokens, eight members of five sources
Soon1 == ClusterOf(<<>>, "2024-07-05T05:00:00Z", {},
                   <<Post, Echo, Star, Sun, Post, Echo, Star>>)

Soon2 == ClusterOf(<<>>, "2024-07-05T06:00:00Z", {},
                   <<Post, Echo, Star, Sun, Post, Echo, Star>>)

RankPool == <<Old100, Old80, NoDate, BadDate, Soon1, Soon2>>

\* the lists of up to MaxRanked different clusters of the pool, in any order
RECURSIVE ListsOfDistinct(_)
ListsOfDistinct(n) ==
    IF n = 0 THEN {<<>>}
    ELSE ListsOfDistinct(n - 1) \cup
         {Append(list, RankPool[i]) :
             list \in {l \in ListsOfDistinct(n - 1) : Len(l) = n - 1},
             i \in 1..Len(RankPool)}

RankInputs ==
    {list \in ListsOfDistinct(MaxRanked) :
        /\ Len(list) >= 1
        /\ \A i, j \in 1..Len(list) : i # j => list[i] # list[j]}

\* the clock when ranking starts: 2024-07-05T04:00:00Z or 07:00:00Z, before
\* or after the dates of Soon1 and Soon2
ClockStarts == {100, 103}

\* Date.now() is read once for every candidate; the clock may advance by an
\* hour between two readings
NowReadingsFor(n) ==
    IF n = 0
        THEN {<<>>}
        ELSE {AsTuple([i \in 1..n |-> IF i <= d THEN start ELSE start + 1]) :
                 start \in ClockStarts, d \in 1..n}

\* a limit below the length of some of the lists and above that of others
RankLimits == {2}

RankInit ==
    /\ aggregatedHeadlines \in RankInputs
    /\ limit \in RankLimits
    /\ pc = "aggregated"
    /\ nowReadings = <<>>
    /\ rankedCandidates = <<>>
    /\ topRanked = <<>>
    /\ dedupeOptions = [mode |-> "default", excludedUrls |-> {}]
    /\ offered = <<>>
    /\ paths = <<>>
    /\ returned = <<>>
    /\ firstSeen = <<>>
    /\ matched = {}
    /\ candidateCache = <<>>
    /\ PairIdle
    /\ QueryIdle
    /\ RouteIdle

\* route.ts 2541 : const rankedCandidates = rankHeadlineCandidates(aggregatedHeadlines)
RankAggregated ==
    /\ pc = "aggregated"
    /\ \E nows \in NowReadingsFor(Len(aggregatedHeadlines)) :
           /\ nowReadings' = nows
           /\ rankedCandidates' = rankHeadlineCandidates(aggregatedHeadlines, nows)
    /\ pc' = "ranked"
    /\ UNCHANGED <<dedupeVars, pairVars, routeVars, queryVars, limit, topRanked>>

\* route.ts 2542 : const topRanked = rankedCandidates.slice(0, limit)
SliceRanked ==
    /\ pc = "ranked"
    /\ topRanked' = SliceTop(rankedCandidates, limit)
    /\ pc' = "responded"
    /\ UNCHANGED <<dedupeVars, pairVars, routeVars, queryVars, limit, nowReadings, rankedCandidates>>

RankNext == RankAggregated \/ SliceRanked

RankSpec == RankInit /\ [][RankNext]_vars

\* ------------------------------------------------------------------------
\* A cluster that grows: reports of one story are merged into a cluster by
\* addHeadlineIfUnique and the cluster is ranked again after it has grown
\* (specification SupportSpec)
\* ------------------------------------------------------------------------
MaxAppends == 3

\* route.ts 904-915 : a record carrying the story's title under the given source
ReportFrom(source) ==
    [title |-> <<"M","a","r","s"," ","r","o","v","e","r">>,
     description |-> <<>>,
     url |-> <<>>,
     source |-> source,
     publishedAt |-> "",
     keyword |-> "",
     queryUsed |-> "",
     searchQuery |-> ""]

\* reports from an outlet the clusters hold under another spelling, from two
\* other outlets and from no named outlet
ReportPool == <<ReportFrom(WirePadded), ReportFrom(Sun), ReportFrom(<<>>), ReportFrom(Post)>>

\* one member; seven members of four sources
Lone == ClusterOf(Wire, "2024-07-01T00:00:00Z", MarsTokens, <<>>)

SevenOfFour == ClusterOf(Wire, "2024-07-01T00:00:00Z", MarsTokens,
                         <<Post, Echo, Star, Post, Echo, Star>>)

SupportPool == <<Lone, SevenOfFour, Soon1>>

SupportInit ==
    /\ \E i \in 1..Len(SupportPool) : aggregatedHeadlines = <<SupportPool[i]>>
    /\ limit = DEFAULT_LIMIT
    /\ pc = "aggregated"
    /\ nowReadings = <<>>
    /\ rankedCandidates = <<>>
    /\ topRanked = <<>>
    /\ dedupeOptions = [mode |-> "default", excludedUrls |-> {}]
    /\ offered = <<>>
    /\ paths = <<>>
    /\ returned = <<>>
    /\ firstSeen = <<>>
    /\ matched = {}
    /\ candidateCache = AsTuple([i \in 1..Len(ReportPool) |->
                                    createHeadlineCandidate(ReportPool[i], dedupeOptions)])
    /\ PairIdle
    /\ QueryIdle
    /\ RouteIdle

\* route.ts 2347 : addHeadlineIfUnique(aggregatedHeadlines, normalized, dedupeOptions)
\* on a further report of the story; rankedCandidates keeps the ranking of
\* the cluster as it was
MergeReport(candidate) ==
    /\ pc \in {"aggregated", "responded"}
    /\ Len(offered) < MaxAppends
    /\ \E outcome \in {addHeadlineIfUnique(aggregatedHeadlines, candidate, dedupeOptions)} :
           /\ aggregatedHeadlines' = outcome.aggregated
           /\ offered' = Append(offered, candidate)
           /\ paths' = Append(paths, outcome.path)
           /\ returned' = Append(returned, outcome.result)
    /\ pc' = "aggregated"
    /\ UNCHANGED <<dedupeOptions, firstSeen, matched, candidateCache, pairVars, routeVars, queryVars,
                   limit, nowReadings, rankedCandidates, topRanked>>

SupportNext ==
    \/ \E i \in 1..Len(ReportPool) : MergeReport(ReportPool[i])
    \/ RankAggregated
    \/ SliceRanked

SupportSpec == SupportInit /\ [][SupportNext]_vars

\* ------------------------------------------------------------------------
\* route.ts 2104-2543 : the handler's search loop over the request's search
\* queries, then rank and slice (specification HandlerSpec).  The request
\* has a query, no RSS feed and no keyword, SERPAPI_KEY is not set, every
\* request to the news API succeeds, and the records are the articles as
\* normalized at lines 2309-2329.
\* ------------------------------------------------------------------------
MaxArticles == 3

\* an article the API returns without a URL
NoLink ==
    [title |-> <<"Q","u","i","e","t"," ","d","a","y">>,
     description |-> <<>>,
     url |-> <<>>,
     source |-> <<"J">>,
     publishedAt |-> "2024-07-01T09:00:00Z",
     keyword |-> "",
     queryUsed |-> "",
     searchQuery |-> ""]

\* two reports of one story, another story, and an article without a URL
ArticlePool == <<MarsA, MarsB, AiTesting, NoLink>>

\* the lists of up to n different articles, in any order
RECURSIVE ArticleLists(_)
ArticleLists(n) ==
    IF n = 0 THEN {<<>>}
    ELSE ArticleLists(n - 1) \cup
         {list \in {Append(l, ArticlePool[i]) :
                       l \in ArticleLists(n - 1), i \in 1..Len(ArticlePool)} :
             /\ Len(list) = n
             /\ \A j, k \in 1..Len(list) : j # k => list[j] # list[k]}

\* route.ts 1976-1978 : the search entry of the request's query
ManualEntry ==
    [query |-> "space news", type |-> "manual", keyword |-> "", fallback |-> FALSE]

\* route.ts 1988-1996 : the search entry of a keyword without white space
KeywordEntry(keyword) ==
    [query |-> keyword, type |-> "keyword", keyword |-> keyword, fallback |-> TRUE]

\* what the API holds for the search query of the request
HandlerResults == {<<list>> : list \in ArticleLists(MaxArticles) \ {<<>>}}

HandlerLimits == {1, 2, 3}

\* route.ts 2085
primaryQueryCount == Cardinality({i \in 1..Len(searchQueries) : ~searchQueries[i].fallback})

\* route.ts 2086
fallbackQueryCount == Cardinality({i \in 1..Len(searchQueries) : searchQueries[i].fallback})

\* route.ts 2087
perQuery == Max(1, (limit + Max(1, primaryQueryCount) - 1) \div Max(1, primaryQueryCount))

\* the articles the API returns for page pageNo of pages of the given size
PageOf(articles, size, pageNo) ==
    SubSeq(articles, (pageNo - 1) * size + 1, Min(pageNo * size, Len(articles)))

HandlerInit ==
    /\ limit \in HandlerLimits
    /\ results \in HandlerResults
    /\ searchIndex = 1
    /\ pc = "searching"
    /\ page = 1
    /\ pageSize = 0
    /\ pending = <<>>
    /\ addedByQuery = 0
    /\ addedThisPage = 0
    /\ aggregatedHeadlines = <<>>
    /\ dedupeOptions = [mode |-> "default", excludedUrls |-> {}]
    /\ offered = <<>>
    /\ paths = <<>>
    /\ returned = <<>>
    /\ firstSeen = <<>>
    /\ matched = {}
    /\ candidateCache = AsTuple([i \in 1..Len(ArticlePool) |->
                                    createHeadlineCandidate(ArticlePool[i], dedupeOptions)])
    /\ nowReadings = <<>>
    /\ rankedCandidates = <<>>
    /\ topRanked = <<>>
    /\ PairIdle
    /\ previousRun = <<>>
    /\ rssFeeds = <<>>
    /\ searchQueries = <<ManualEntry>>
    /\ HandlerIdle

\* route.ts 2209-2223 : the head of the for loop over searchQueries
NextSearch ==
    /\ pc = "searching"
    /\ IF searchIndex > Len(results) \/ Len(aggregatedHeadlines) >= limit
       THEN /\ pc' = "aggregated"
            /\ UNCHANGED <<page, addedByQuery>>
       ELSE /\ pc' = "paging"
            /\ page' = 1
            /\ addedByQuery' = 0
    /\ UNCHANGED <<dedupeVars, pairVars, routeVars, limit, nowReadings, rankedCandidates, topRanked,
                   results, searchIndex, pageSize, pending, addedThisPage>>

\* route.ts 2245-2306 : the test of the while loop, the request for one page
FetchPage ==
    /\ pc = "paging"
    /\ IF addedByQuery < perQuery /\ Len(aggregatedHeadlines) < limit
       THEN \E size \in {Max(1, Min(Max(0, limit - Len(aggregatedHeadlines)),
                                    perQuery - addedByQuery))} :
                /\ pageSize' = size
                /\ pending' = PageOf(results[searchIndex], size, page)
                /\ pc' = IF PageOf(results[searchIndex], size, page) = <<>>
                         THEN "pageDone" ELSE "articles"
                /\ addedThisPage' = 0
                /\ UNCHANGED searchIndex
       ELSE /\ searchIndex' = searchIndex + 1
            /\ pc' = "searching"
            /\ UNCHANGED <<pageSize, pending, addedThisPage>>
    /\ UNCHANGED <<dedupeVars, pairVars, routeVars, limit, nowReadings, rankedCandidates, topRanked,
                   results, page, addedByQuery>>

\* route.ts 2308-2360 : one turn of the for loop over data.articles
ProcessArticle ==
    /\ pc = "articles"
    /\ pending # <<>>
    /\ pending' = Tail(pending)
    /\ IF Head(pending).title = <<>> \/ Head(pending).url = <<>>
       THEN /\ pc' = IF Tail(pending) = <<>> THEN "pageDone" ELSE "articles"
            /\ UNCHANGED <<aggregatedHeadlines, offered, paths, returned, firstSeen, matched,
                           addedByQuery, addedThisPage>>
       ELSE /\ \E outcome \in {addHeadlineIfUnique(aggregatedHeadlines, Head(pending),
                                                   dedupeOptions)} :
                   /\ aggregatedHeadlines' = outcome.aggregated
                   /\ offered' = Append(offered, Head(pending))
                   /\ paths' = Append(paths, outcome.path)
                   /\ returned' = Append(returned, outcome.result)
                   /\ firstSeen' = IF outcome.result
                                   THEN Append(firstSeen, Head(pending)) ELSE firstSeen
                   /\ addedByQuery' = IF outcome.result THEN addedByQuery + 1 ELSE addedByQuery
                   /\ addedThisPage' = IF outcome.result THEN addedThisPage + 1
                                       ELSE addedThisPage
                   /\ pc' = IF \/ /\ outcome.result
                                  /\ \/ addedByQuery + 1 >= perQuery
                                     \/ Len(outcome.aggregated) >= limit
                               \/ Tail(pending) = <<>>
                            THEN "pageDone" ELSE "articles"
            /\ \E enriched \in {CachedHeadlineCandidate(Head(pending), dedupeOptions)} :
                   matched' = {k \in 1..Len(aggregatedHeadlines) :
                                  areHeadlinesNearDuplicate(aggregatedHeadlines[k], enriched,
                                                            dedupeOptions)}
    /\ UNCHANGED <<dedupeOptions, candidateCache, pairVars, routeVars, limit, nowReadings,
                   rankedCandidates, topRanked, results, searchIndex, page, pageSize>>

\* route.ts 2362-2374 : after the for loop, leave the while loop or turn the page
EndPage ==
    /\ pc = "pageDone"
    /\ IF \/ addedByQuery >= perQuery
          \/ Len(aggregatedHeadlines) >= limit
          \/ addedThisPage = 0
          \/ Len(PageOf(results[searchIndex], pageSize, page)) < pageSize
       THEN /\ searchIndex' = searchIndex + 1
            /\ pc' = "searching"
            /\ UNCHANGED page
       ELSE /\ page' = page + 1
            /\ pc' = "paging"
            /\ UNCHANGED searchIndex
    /\ UNCHANGED <<dedupeVars, pairVars, routeVars, limit, nowReadings, rankedCandidates, topRanked,
                   results, pageSize, pending, addedByQuery, addedThisPage>>

HandlerNext ==
    \/ NextSearch
    \/ FetchPage
    \/ ProcessArticle
    \/ EndPage
    \/ RankAggregated
    \/ SliceRanked

HandlerSpec == HandlerInit /\ [][HandlerNext]_vars

\* ------------------------------------------------------------------------
\* Two runs of aggregation and ranking over the same records, in the same
\* order, with the same options (specification RepeatSpec)
\* ------------------------------------------------------------------------
MaxRunRecords == 3

\* two reports of one story, a record without a URL, and a record less than
\* 72 hours old when the clock is read
RepeatPool == <<MarsA, MarsB, NoUrl, BrexitDeal>>

\* the lists of up to n different records of the pool, in any order
RECURSIVE RecordLists(_)
RecordLists(n) ==
    IF n = 0 THEN {<<>>}
    ELSE RecordLists(n - 1) \cup
         {list \in {Append(l, RepeatPool[i]) :
                       l \in RecordLists(n - 1), i \in 1..Len(RepeatPool)} :
             /\ Len(list) = n
             /\ \A j, k \in 1..Len(list) : j # k => list[j] # list[k]}

RepeatInit ==
    /\ dedupeOptions \in {DedupeOptionsOf(mode, <<>>) : mode \in DedupeModes}
    /\ results \in {<<list>> : list \in RecordLists(MaxRunRecords) \ {<<>>}}
    /\ pending = results[1]
    /\ searchIndex = 1
    /\ page = 1
    /\ pageSize = 0
    /\ addedByQuery = 0
    /\ addedThisPage = 0
    /\ aggregatedHeadlines = <<>>
    /\ offered = <<>>
    /\ paths = <<>>
    /\ returned = <<>>
    /\ firstSeen = <<>>
    /\ matched = {}
    /\ candidateCache = AsTuple([i \in 1..Len(RepeatPool) |->
                                    createHeadlineCandidate(RepeatPool[i], dedupeOptions)])
    /\ PairIdle
    /\ RankingIdle
    /\ RouteIdle

\* one call addHeadlineIfUnique(aggregatedHeadlines, record, dedupeOptions) on
\* the next record of the run; after the last one the list goes to the ranker
OfferNext ==
    /\ pc = "aggregating"
    /\ pending # <<>>
    /\ pending' = Tail(pending)
    /\ \E outcome \in {addHeadlineIfUnique(aggregatedHeadlines, Head(pending), dedupeOptions)} :
           /\ aggregatedHeadlines' = outcome.aggregated
           /\ offered' = Append(offered, Head(pending))
           /\ paths' = Append(paths, outcome.path)
           /\ returned' = Append(returned, outcome.result)
           /\ firstSeen' = IF outcome.result THEN Append(firstSeen, Head(pending))
                           ELSE firstSeen
    /\ \E enriched \in {CachedHeadlineCandidate(Head(pending), dedupeOptions)} :
           matched' = {k \in 1..Len(aggregatedHeadlines) :
                          areHeadlinesNearDuplicate(aggregatedHeadlines[k], enriched,
                                                    dedupeOptions)}
    /\ pc' = IF Tail(pending) = <<>> THEN "aggregated" ELSE "aggregating"
    /\ UNCHANGED <<dedupeOptions, candidateCache, pairVars, routeVars, limit, nowReadings,
                   rankedCandidates, topRanked, results, searchIndex, page, pageSize,
                   addedByQuery, addedThisPage>>

\* the second run beginning with the cluster list the first run has left
RunAgainOnOldClusters ==
    /\ pc = "responded"
    /\ previousRun = <<>>
    /\ previousRun' = <<[clusters |-> aggregatedHeadlines,
                         nows |-> nowReadings,
                         ranked |-> rankedCandidates,
                         top |-> topRanked]>>
    /\ pending' = results[1]
    /\ offered' = <<>>
    /\ paths' = <<>>
    /\ returned' = <<>>
    /\ firstSeen' = <<>>
    /\ matched' = {}
    /\ nowReadings' = <<>>
    /\ rankedCandidates' = <<>>
    /\ topRanked' = <<>>
    /\ pc' = "aggregating"
    /\ UNCHANGED <<aggregatedHeadlines, dedupeOptions, candidateCache, pairVars, limit, results,
                   searchIndex, page, pageSize, addedByQuery, addedThisPage, handlerVars>>

\* route.ts 2071 : the second run begins as the first did, with
\* const aggregatedHeadlines = []; what the first run produced is kept aside
RunAgain ==
    /\ pc = "responded"
    /\ previousRun = <<>>
    /\ previousRun' = <<[clusters |-> aggregatedHeadlines,
                         nows |-> nowReadings,
                         ranked |-> rankedCandidates,
                         top |-> topRanked]>>
    /\ pending' = results[1]
    /\ aggregatedHeadlines' = <<>>
    /\ offered' = <<>>
    /\ paths' = <<>>
    /\ returned' = <<>>
    /\ firstSeen' = <<>>
    /\ matched' = {}
    /\ nowReadings' = <<>>
    /\ rankedCandidates' = <<>>
    /\ topRanked' = <<>>
    /\ pc' = "aggregating"
    /\ UNCHANGED <<dedupeOptions, candidateCache, pairVars, limit, results,
                   searchIndex, page, pageSize, addedByQuery, addedThisPage, handlerVars>>

RepeatNext ==
    \/ OfferNext
    \/ RankAggregated
    \/ SliceRanked
    \/ RunAgain

RepeatSpec == RepeatInit /\ [][RepeatNext]_vars

\* ------------------------------------------------------------------------
\* route.ts 2071-2543 : the handler from the RSS feeds to the response, for
\* requests with RSS feeds, a query and keywords, and upstream services that
\* answer or fail in every way the code tells apart (specification
\* RouteSpec).  SERPAPI_KEY is not set.
\* ------------------------------------------------------------------------
MaxPageLength == 2

\* the characters of the request's keywords
KeywordText(keyword) ==
    CASE keyword = "mars" -> <<"m","a","r","s">>
      [] keyword = "ai" -> <<"a","i">>
      [] OTHER -> <<>>

\* String.prototype.includes
includes(text, part) ==
    \E i \in 0..(Len(text) - Len(part)) : SubSeq(text, i + 1, i + Len(part)) = part

\* route.ts 917-934
headlineMatchesKeyword(keyword, headline) ==
    LET trimmed == trim(KeywordText(keyword))
    IN  \/ trimmed = <<>>
        \/ includes(toLowerCase(headline.title), toLowerCase(trimmed))
        \/ includes(toLowerCase(headline.description), toLowerCase(trimmed))

\* route.ts 2309-2329 : the NormalizedHeadline built from an article of the page
NormalizedArticle(article, searchEntry) ==
    [article EXCEPT
        !.queryUsed = searchEntry.query,
        !.searchQuery = searchEntry.query,
        !.keyword = IF searchEntry.type = "keyword" /\ searchEntry.keyword # ""
                    THEN searchEntry.keyword ELSE ""]

\* the two feeds of the requests, the first with a channel title
FeedA == "https://a.example/rss"
FeedB == "https://b.example/rss"

\* route.ts 2120, 2168-2171 : queryLabel
RssLabel(feedUrl, withTitle) ==
    IF withTitle /\ feedUrl = FeedA THEN "RSS: Science Daily"
    ELSE IF feedUrl = FeedA THEN "RSS: https://a.example/rss"
    ELSE "RSS: https://b.example/rss"

RssLabels == {RssLabel(feedUrl, withTitle) : feedUrl \in {FeedA, FeedB}, withTitle \in BOOLEAN}

\* route.ts 1079-1087 : the NormalizedHeadline built from an item of the feed
NormalizedItem(item, feedUrl) ==
    [item EXCEPT
        !.queryUsed = RssLabel(feedUrl, TRUE),
        !.searchQuery = feedUrl,
        !.keyword = ""]

\* the items a parsed feed can hold, each with a title, a link and a date
\* within the request's range
FeedItemLists == {<<>>, <<MarsA>>, <<MarsB, AiTesting>>}

\* what a request for a feed can lead to: the requester throws an AbortError
\* or another error, answers with a status that is not OK, with an empty body,
\* with a body the XML parser rejects, or with a feed
FeedFailures == {"timed out", "unreachable", "failed", "empty", "unparsable"}

FeedOutcomes ==
    {[kind |-> failure, items |-> <<>>] : failure \in FeedFailures} \cup
    {[kind |-> "feed", items |-> items] : items \in FeedItemLists}

\* what a request for a page can lead to: the requester throws, the body
\* cannot be read (status OK or not), the status is not OK, the body is not
\* {status: 'ok', articles: [...]}, or it is
PageFailures == {"unreachable", "unreadable", "unreadable failure", "failed", "unexpected"}

\* two reports of one story and another story
PagePool == <<MarsA, MarsB, AiTesting>>

\* the lists of up to n different articles of the pool, in any order
RECURSIVE PageLists(_)
PageLists(n) ==
    IF n = 0 THEN {<<>>}
    ELSE PageLists(n - 1) \cup
         {list \in {Append(l, PagePool[i]) : l \in PageLists(n - 1), i \in 1..Len(PagePool)} :
             /\ Len(list) = n
             /\ \A j, k \in 1..Len(list) : j # k => list[j] # list[k]}

PageOutcomes ==
    {[kind |-> failure, articles |-> <<>>] : failure \in PageFailures} \cup
    {[kind |-> "ok", articles |-> articles] : articles \in PageLists(MaxPageLength)}

\* the requests: their feeds, their search entries and their limit
RouteRequests ==
    {[rssFeeds |-> <<FeedB, FeedA>>, searchQueries |-> <<ManualEntry>>, limit |-> 2],
     [rssFeeds |-> <<FeedA>>, searchQueries |-> <<ManualEntry>>, limit |-> 1],
     [rssFeeds |-> <<>>, searchQueries |-> <<ManualEntry, KeywordEntry("mars")>>, limit |-> 2],
     [rssFeeds |-> <<>>, searchQueries |-> <<KeywordEntry("mars"), KeywordEntry("ai")>>,
      limit |-> 3]}

\* every NormalizedHeadline a run can build
RoutePool ==
    LET entries == <<ManualEntry, KeywordEntry("mars"), KeywordEntry("ai")>>
        feeds == <<FeedA, FeedB>>
        items == <<MarsA, MarsB, AiTesting>>
    IN  AsTuple([i \in 1..(Len(PagePool) * Len(entries)) |->
                    NormalizedArticle(PagePool[((i - 1) \div Len(entries)) + 1],
                                      entries[((i - 1) % Len(entries)) + 1])]) \o
        AsTuple([i \in 1..(Len(items) * Len(feeds)) |->
                    NormalizedItem(items[((i - 1) \div Len(feeds)) + 1],
                                   feeds[((i - 1) % Len(feeds)) + 1])])

\* route.ts 2110
rssPerFeedQuota == Max(1, Min(3, (perQuery + 1) \div 2))

\* route.ts 2111
rssTotalQuota == Max(Len(rssFeeds), rssPerFeedQuota * Len(rssFeeds))

\* the handler beginning with the search entries
StartWithSearch == "searching"

\* route.ts 2104, 2209 : the RSS feeds, if there are any, come before the search
\* entries
FirstStep == IF rssFeeds = <<>> THEN "searching" ELSE "feeds"

RouteInit ==
    /\ \E request \in RouteRequests :
           /\ rssFeeds = request.rssFeeds
           /\ searchQueries = request.searchQueries
           /\ limit = request.limit
    /\ dedupeOptions = [mode |-> "default", excludedUrls |-> {}]
    /\ candidateCache = AsTuple([i \in 1..Len(RoutePool) |->
                                    createHeadlineCandidate(RoutePool[i], dedupeOptions)])
    /\ aggregatedHeadlines = <<>>
    /\ offered = <<>>
    /\ paths = <<>>
    /\ returned = <<>>
    /\ firstSeen = <<>>
    /\ matched = {}
    /\ pc = FirstStep
    /\ nowReadings = <<>>
    /\ rankedCandidates = <<>>
    /\ topRanked = <<>>
    /\ QueryIdle
    /\ PairIdle
    /\ previousRun = <<>>
    /\ feedIndex = 1
    /\ rssAdded = 0
    /\ trace = <<>>
    /\ queriesAttempted = <<>>
    /\ queryWarnings = <<>>
    /\ successfulQueries = 0
    /\ querySucceeded = FALSE
    /\ maxForQuery = 0
    /\ remainingFallbackQueries = fallbackQueryCount
    /\ receivedCount = 0
    /\ pages = <<>>
    /\ aggregatedData = <<>>
    /\ keywordHeadlineResults = <<>>

\* what the ranking reads and writes
rankedVars == <<nowReadings, rankedCandidates, topRanked>>

\* route.ts 2176-2184 : one turn of the loop over the headlines of a feed,
\* given what addHeadlineIfUnique returned
OfferFeedHeadline(headline, sofar, outcome, twins) ==
    [aggregated |-> outcome.aggregated,
     data |-> IF outcome.result THEN Append(sofar.data, Len(sofar.offered) + 1)
              ELSE sofar.data,
     offered |-> Append(sofar.offered, headline),
     paths |-> Append(sofar.paths, outcome.path),
     returned |-> Append(sofar.returned, outcome.result),
     firstSeen |-> IF outcome.result THEN Append(sofar.firstSeen, headline)
                   ELSE sofar.firstSeen,
     matched |-> twins,
     rssAdded |-> IF outcome.result THEN sofar.rssAdded + 1 ELSE sofar.rssAdded,
     addedFromFeed |-> IF outcome.result THEN sofar.addedFromFeed + 1
                       ELSE sofar.addedFromFeed,
     feedQuotaRemaining |-> IF outcome.result THEN sofar.feedQuotaRemaining - 1
                            ELSE sofar.feedQuotaRemaining]

\* route.ts 2174-2185 : the for loop over the headlines of one feed
RECURSIVE OfferFeedHeadlines(_, _)
OfferFeedHeadlines(headlines, sofar) ==
    IF \/ headlines = <<>>
       \/ sofar.rssAdded >= rssTotalQuota
       \/ sofar.feedQuotaRemaining <= 0
    THEN sofar
    ELSE CHOOSE after \in
             {OfferFeedHeadlines(Tail(headlines),
                                 OfferFeedHeadline(Head(headlines), sofar, outcome, twins)) :
                 outcome \in {addHeadlineIfUnique(sofar.aggregated, Head(headlines),
                                                  dedupeOptions)},
                 twins \in {{k \in 1..Len(sofar.aggregated) :
                                areHeadlinesNearDuplicate(
                                    sofar.aggregated[k],
                                    CachedHeadlineCandidate(Head(headlines), dedupeOptions),
                                    dedupeOptions)}}} : TRUE

\* the warning of a failed feed naming no feed
FeedWarningUnnamed(kind, feedUrl) == [text |-> "RSS feed request failed", about |-> ""]

\* route.ts 2127-2166, 2198-2202 : the warning pushed when the feed yields no headlines
FeedWarning(kind, feedUrl) ==
    [text |-> CASE kind = "timed out" -> "RSS feed request timed out for"
                [] kind = "unreachable" -> "RSS feed error"
                [] kind = "failed" -> "RSS feed request failed"
                [] kind = "empty" -> "RSS feed returned empty response for"
                [] kind = "unparsable" -> "RSS feed parse error"
                [] OTHER -> "No headlines found for RSS feed:",
     about |-> feedUrl]

\* route.ts 2114-2206 : one turn of the for loop over rssFeeds
FetchFeed ==
    /\ pc = "feeds"
    /\ \E outcome \in FeedOutcomes :
         \E after \in {OfferFeedHeadlines(
                           AsTuple([i \in 1..Len(outcome.items) |->
                                       NormalizedItem(outcome.items[i], rssFeeds[feedIndex])]),
                           [aggregated |-> aggregatedHeadlines,
                            data |-> aggregatedData,
                            offered |-> offered,
                            paths |-> paths,
                            returned |-> returned,
                            firstSeen |-> firstSeen,
                            matched |-> matched,
                            rssAdded |-> rssAdded,
                            addedFromFeed |-> 0,
                            feedQuotaRemaining |-> rssPerFeedQuota])} :
            /\ aggregatedHeadlines' = after.aggregated
            /\ aggregatedData' = after.data
            /\ offered' = after.offered
            /\ paths' = after.paths
            /\ returned' = after.returned
            /\ firstSeen' = after.firstSeen
            /\ matched' = after.matched
            /\ rssAdded' = after.rssAdded
            /\ trace' = trace \o
                        <<[event |-> "rss", target |-> rssFeeds[feedIndex],
                           answer |-> outcome.kind]>> \o
                        AsTuple([i \in 1..(Len(after.offered) - Len(offered)) |->
                                    [event |-> "offer", target |-> rssFeeds[feedIndex],
                                     answer |-> after.paths[Len(offered) + i]]])
            /\ successfulQueries' = IF after.addedFromFeed > 0 THEN successfulQueries + 1
                                    ELSE successfulQueries
            /\ queryWarnings' = IF after.addedFromFeed > 0 THEN queryWarnings
                                ELSE Append(queryWarnings,
                                            FeedWarning(outcome.kind, rssFeeds[feedIndex]))
            /\ queriesAttempted' = Append(queriesAttempted,
                                          RssLabel(rssFeeds[feedIndex], outcome.kind = "feed"))
            /\ pc' = IF feedIndex + 1 > Len(rssFeeds) \/ after.rssAdded >= rssTotalQuota
                     THEN "searching" ELSE "feeds"
    /\ feedIndex' = feedIndex + 1
    /\ UNCHANGED <<dedupeOptions, candidateCache, pairVars, limit, rankedVars, queryVars,
                   previousRun, requestVars, quotaVars, keywordHeadlineResults, pages>>

\* the fallback quota being the whole remaining capacity
fallbackQuotaOfWholeCapacity == Max(1, limit - Len(aggregatedHeadlines))

\* route.ts 2228, 2233-2241 : fallbackQuota
fallbackQuota ==
    LET remainingCapacity == Max(0, limit - Len(aggregatedHeadlines))
        rawQuota == IF remainingFallbackQueries > 0
                    THEN (remainingCapacity + remainingFallbackQueries - 1)
                             \div remainingFallbackQueries
                    ELSE remainingCapacity
    IN  Max(1, Min(rawQuota, remainingCapacity))

\* route.ts 2209-2243 : the head of the for loop over searchQueries.  After
\* the test of line 2210 the tests of lines 2216 and 2229 never succeed.
NextQuery ==
    /\ pc = "searching"
    /\ IF searchIndex > Len(searchQueries) \/ Len(aggregatedHeadlines) >= limit
       THEN /\ pc' = "searched"
            /\ UNCHANGED <<queriesAttempted, page, querySucceeded, addedByQuery, maxForQuery>>
       ELSE /\ queriesAttempted' = Append(queriesAttempted, searchQueries[searchIndex].query)
            /\ page' = 1
            /\ querySucceeded' = FALSE
            /\ addedByQuery' = 0
            /\ maxForQuery' = IF searchQueries[searchIndex].fallback
                              THEN fallbackQuota ELSE perQuery
            /\ pc' = "paging"
    /\ UNCHANGED <<dedupeVars, pairVars, limit, rankedVars, results, searchIndex, pageSize,
                   pending, addedThisPage, previousRun, requestVars, feedVars, queryWarnings,
                   successfulQueries, remainingFallbackQueries, receivedCount, keywordVars,
                   trace, pages>>

\* route.ts 2263, 2279-2300 : the warning pushed when the page is no valid answer
PageWarning(kind, search) ==
    [text |-> CASE kind = "unreachable" -> "Failed to reach NewsAPI for query:"
                [] kind = "unreadable" -> "Invalid response from NewsAPI for query:"
                [] kind = "unreadable failure" -> "NewsAPI request failed for query:"
                [] kind = "failed" -> "NewsAPI error for query"
                [] OTHER -> "Unexpected response from NewsAPI for query:",
     about |-> search]

\* route.ts 2245-2306 : the test of the while loop and the request for one page
RequestPage ==
    /\ pc = "paging"
    /\ IF addedByQuery < maxForQuery /\ Len(aggregatedHeadlines) < limit
       THEN \E size \in {Max(1, Min(Max(0, limit - Len(aggregatedHeadlines)),
                                    maxForQuery - addedByQuery))},
               outcome \in PageOutcomes :
                /\ pageSize' = size
                /\ trace' = Append(trace, [event |-> "newsapi",
                                           target |-> searchQueries[searchIndex].query,
                                           answer |-> outcome.kind])
                /\ pages' = Append(pages, [query |-> searchIndex,
                                           page |-> page,
                                           pageSize |-> size,
                                           quota |-> maxForQuery,
                                           valid |-> outcome.kind = "ok",
                                           received |-> Len(outcome.articles),
                                           clustersBefore |-> Len(aggregatedHeadlines),
                                           addedBefore |-> addedByQuery,
                                           added |-> 0,
                                           addedByQuery |-> addedByQuery,
                                           clusters |-> Len(aggregatedHeadlines)])
                /\ IF outcome.kind = "ok"
                   THEN /\ querySucceeded' = TRUE
                        /\ addedThisPage' = 0
                        /\ pending' = outcome.articles
                        /\ receivedCount' = Len(outcome.articles)
                        /\ pc' = IF outcome.articles = <<>> THEN "pageDone" ELSE "articles"
                        /\ UNCHANGED queryWarnings
                   ELSE /\ queryWarnings' =
                               Append(queryWarnings,
                                      PageWarning(outcome.kind, searchQueries[searchIndex].query))
                        /\ pc' = "queryDone"
                        /\ UNCHANGED <<querySucceeded, addedThisPage, pending, receivedCount>>
       ELSE /\ pc' = "queryDone"
            /\ UNCHANGED <<pageSize, trace, pages, querySucceeded, addedThisPage, pending,
                           receivedCount, queryWarnings>>
    /\ UNCHANGED <<dedupeVars, pairVars, limit, rankedVars, results, searchIndex, page,
                   addedByQuery, previousRun, requestVars, feedVars, queriesAttempted,
                   successfulQueries, maxForQuery, remainingFallbackQueries, keywordVars>>

\* route.ts 1409-1421 : the cluster's data is the record it was handed, not a
\* copy.  The clusters of a list whose data is an object that a cluster of
\* another list holds too read what that object holds now.
ReadShared(candidates, objects, others, otherObjects) ==
    AsTuple([j \in 1..Len(candidates) |->
                IF \E k \in 1..Len(otherObjects) : otherObjects[k] = objects[j]
                THEN [candidates[j] EXCEPT
                         !.data = others[CHOOSE k \in 1..Len(otherObjects) :
                                             otherObjects[k] = objects[j]].data]
                ELSE candidates[j]])

\* the same, for the lists of every keyword
ReadSharedByKeyword(aggregations, others, otherObjects) ==
    AsTuple([e \in 1..Len(aggregations) |->
                [aggregations[e] EXCEPT
                    !.candidates = ReadShared(@, aggregations[e].objects, others, otherObjects)]])

\* route.ts 2335-2345 : the search entry is one of a keyword
IsKeywordEntry(searchEntry) == searchEntry.type = "keyword" /\ searchEntry.keyword # ""

\* route.ts 2308-2353 : one turn of the for loop over data.articles, up to the
\* offer to aggregatedHeadlines
OfferArticle ==
    /\ pc = "articles"
    /\ pending # <<>>
    /\ \E normalized \in {NormalizedArticle(Head(pending), searchQueries[searchIndex])} :
         IF \/ normalized.title = <<>>
            \/ normalized.url = <<>>
            \/ /\ IsKeywordEntry(searchQueries[searchIndex])
               /\ ~headlineMatchesKeyword(searchQueries[searchIndex].keyword, normalized)
         THEN /\ pending' = Tail(pending)
              /\ pc' = IF Tail(pending) = <<>> THEN "pageDone" ELSE "articles"
              /\ UNCHANGED <<aggregatedHeadlines, offered, paths, returned, firstSeen, matched,
                             addedByQuery, addedThisPage, keywordVars, trace>>
         ELSE /\ \E outcome \in {addHeadlineIfUnique(aggregatedHeadlines, normalized,
                                                     dedupeOptions)} :
                    /\ aggregatedHeadlines' = outcome.aggregated
                    /\ aggregatedData' = IF outcome.result
                                         THEN Append(aggregatedData, Len(offered) + 1)
                                         ELSE aggregatedData
                    /\ keywordHeadlineResults' =
                           ReadSharedByKeyword(keywordHeadlineResults, outcome.aggregated,
                                               aggregatedData)
                    /\ offered' = Append(offered, normalized)
                    /\ paths' = Append(paths, outcome.path)
                    /\ returned' = Append(returned, outcome.result)
                    /\ firstSeen' = IF outcome.result
                                    THEN Append(firstSeen, normalized) ELSE firstSeen
                    /\ addedByQuery' = IF outcome.result THEN addedByQuery + 1 ELSE addedByQuery
                    /\ addedThisPage' = IF outcome.result THEN addedThisPage + 1
                                        ELSE addedThisPage
                    /\ IF /\ outcome.result
                          /\ \/ addedByQuery + 1 >= maxForQuery
                             \/ Len(outcome.aggregated) >= limit
                       THEN /\ pc' = "pageDone"
                            /\ pending' = Tail(pending)
                       ELSE IF IsKeywordEntry(searchQueries[searchIndex])
                       THEN /\ pc' = "keywordOffer"
                            /\ pending' = pending
                       ELSE /\ pc' = IF Tail(pending) = <<>> THEN "pageDone" ELSE "articles"
                            /\ pending' = Tail(pending)
              /\ \E enriched \in {CachedHeadlineCandidate(normalized, dedupeOptions)} :
                     matched' = {k \in 1..Len(aggregatedHeadlines) :
                                    areHeadlinesNearDuplicate(aggregatedHeadlines[k], enriched,
                                                              dedupeOptions)}
              /\ trace' = Append(trace, [event |-> "offer",
                                         target |-> searchQueries[searchIndex].query,
                                         answer |-> paths'[Len(paths')]])
    /\ UNCHANGED <<dedupeOptions, candidateCache, pairVars, limit, rankedVars, results,
                   searchIndex, page, pageSize, previousRun, requestVars, feedVars, reportVars,
                   quotaVars, pages>>

\* route.ts 2095-2103 : ensureKeywordEntry
ensureKeywordEntry(keyword, queryValue) ==
    IF \E e \in 1..Len(keywordHeadlineResults) : keywordHeadlineResults[e].keyword = keyword
    THEN keywordHeadlineResults
    ELSE Append(keywordHeadlineResults,
                [keyword |-> keyword, query |-> queryValue, candidates |-> <<>>,
                 objects |-> <<>>])

\* route.ts 2355-2358 : the rest of the turn, the offer of the same record to
\* the list of the keyword
OfferToKeywordList ==
    /\ pc = "keywordOffer"
    /\ \E normalized \in {NormalizedArticle(Head(pending), searchQueries[searchIndex])},
          entries \in {ensureKeywordEntry(searchQueries[searchIndex].keyword,
                                          searchQueries[searchIndex].query)} :
         \E e \in {e \in 1..Len(entries) :
                      entries[e].keyword = searchQueries[searchIndex].keyword} :
           \E outcome \in {addHeadlineIfUnique(entries[e].candidates, normalized,
                                               dedupeOptions)} :
             /\ keywordHeadlineResults' =
                    [entries EXCEPT
                        ![e].candidates = outcome.aggregated,
                        ![e].objects = IF outcome.result THEN Append(@, Len(offered)) ELSE @]
             /\ aggregatedHeadlines' =
                    ReadShared(aggregatedHeadlines, aggregatedData, outcome.aggregated,
                               entries[e].objects)
    /\ pending' = Tail(pending)
    /\ pc' = IF Tail(pending) = <<>> THEN "pageDone" ELSE "articles"
    /\ UNCHANGED <<dedupeOptions, offered, paths, returned, firstSeen, matched, candidateCache,
                   pairVars, limit, rankedVars, results, searchIndex, page, pageSize,
                   addedByQuery, addedThisPage, previousRun, requestVars, feedVars, reportVars,
                   quotaVars, aggregatedData, trace, pages>>

\* the page turned after a full page that added no cluster, too
TurnPageWithoutAddition ==
    /\ pc = "pageDone"
    /\ pages' = [pages EXCEPT ![Len(pages)].added = addedThisPage,
                              ![Len(pages)].addedByQuery = addedByQuery,
                              ![Len(pages)].clusters = Len(aggregatedHeadlines)]
    /\ IF \/ addedByQuery >= maxForQuery
          \/ Len(aggregatedHeadlines) >= limit
          \/ receivedCount < pageSize
       THEN /\ pc' = "queryDone"
            /\ UNCHANGED page
       ELSE /\ page' = page + 1
            /\ pc' = "paging"
    /\ UNCHANGED <<dedupeVars, pairVars, limit, rankedVars, results, searchIndex, pageSize,
                   pending, addedByQuery, addedThisPage, previousRun, requestVars, feedVars,
                   reportVars, quotaVars, keywordVars, trace>>

\* route.ts 2362-2374 : after the for loop, leave the while loop or turn the page
TurnPage ==
    /\ pc = "pageDone"
    /\ pages' = [pages EXCEPT ![Len(pages)].added = addedThisPage,
                              ![Len(pages)].addedByQuery = addedByQuery,
                              ![Len(pages)].clusters = Len(aggregatedHeadlines)]
    /\ IF \/ addedByQuery >= maxForQuery
          \/ Len(aggregatedHeadlines) >= limit
          \/ addedThisPage = 0
          \/ receivedCount < pageSize
       THEN /\ pc' = "queryDone"
            /\ UNCHANGED page
       ELSE /\ page' = page + 1
            /\ pc' = "paging"
    /\ UNCHANGED <<dedupeVars, pairVars, limit, rankedVars, results, searchIndex, pageSize,
                   pending, addedByQuery, addedThisPage, previousRun, requestVars, feedVars,
                   reportVars, quotaVars, keywordVars, trace>>

\* route.ts 2377-2482 : the end of the turn for one search entry; the block
\* of lines 2381-2478 is skipped, serpApiConfigured being false
EndQuery ==
    /\ pc = "queryDone"
    /\ remainingFallbackQueries' = IF searchQueries[searchIndex].fallback
                                   THEN Max(0, remainingFallbackQueries - 1)
                                   ELSE remainingFallbackQueries
    /\ successfulQueries' = IF querySucceeded THEN successfulQueries + 1
                            ELSE successfulQueries
    /\ searchIndex' = searchIndex + 1
    /\ pc' = "searching"
    /\ UNCHANGED <<dedupeVars, pairVars, limit, rankedVars, results, page, pageSize, pending,
                   addedByQuery, addedThisPage, previousRun, requestVars, feedVars,
                   queriesAttempted, queryWarnings, querySucceeded, maxForQuery, receivedCount,
                   keywordVars, trace, pages>>

\* route.ts 2485-2499 : the answer 502 when no query succeeded and no cluster
\* was built; otherwise the list goes to the ranker
AnswerOrRank ==
    /\ pc = "searched"
    /\ pc' = IF successfulQueries = 0 /\ Len(aggregatedHeadlines) = 0
             THEN "failed" ELSE "aggregated"
    /\ UNCHANGED <<dedupeVars, pairVars, limit, rankedVars, queryVars, routeVars>>

RouteNext ==
    \/ FetchFeed
    \/ NextQuery
    \/ RequestPage
    \/ OfferArticle
    \/ OfferToKeywordList
    \/ TurnPage
    \/ EndQuery
    \/ AnswerOrRank
    \/ RankAggregated
    \/ SliceRanked

RouteSpec == RouteInit /\ [][RouteNext]_vars

\* the handler has answered: it has returned the 502 response or the payload
Answered == pc \in {"failed", "responded"}

\* The handler is one async function: it goes on whenever the service it
\* awaits has answered or failed.  That is weak fairness of the page request
\* and of RouteNext as a whole.  A step of RouteNext is possible exactly until
\* the handler has answered, and every step that changes the state is one of
\* RouteNext, which gives the second condition the form below.
RouteFairSpec ==
    /\ RouteSpec
    /\ WF_vars(RequestPage)
    /\ ([]<>(Answered) \/ []<><<TRUE>>_vars)

\* route.ts 2499, 2580 : the status of the response, 0 while there is none
ResponseStatus ==
    IF pc = "failed" THEN 502 ELSE IF pc = "responded" THEN 200 ELSE 0

\* ------------------------------------------------------------------------
\* Properties of the cluster list (specification Spec)
\* ------------------------------------------------------------------------
\* the record of the call that led to the state, and what the call returned
LastOffered == offered[Len(offered)]

LastPath == paths[Len(paths)]

\* the record's normalized URL is one the run excludes
IsExcludedRecord(record) ==
    /\ normalizeUrlForComparison(record.url) # <<>>
    /\ normalizeUrlForComparison(record.url) \in dedupeOptions.excludedUrls

\* the records offered so far that the run does not exclude
NonExcludedOffers == {k \in 1..Len(offered) : ~IsExcludedRecord(offered[k])}

\* the number of related articles over all clusters
RelatedCount ==
    Cardinality({s \in (1..Len(aggregatedHeadlines)) \X (1..Len(offered)) :
                     s[2] <= Len(aggregatedHeadlines[s[1]].related)})

\* the number of records dropped because their cluster already held their URL
SameUrlDrops == Cardinality({k \in 1..Len(paths) : paths[k] = "same-url"})

\* the normalized URLs a cluster holds: its primary's and its related articles'
ClusterUrls(cluster) ==
    {cluster.normalizedUrl} \cup
    {normalizeUrlForComparison(cluster.related[r].url) : r \in 1..Len(cluster.related)}

\* C1: after any sequence of calls, in either mode, the i-th cluster carries
\* the title, url, source and publishedAt of the i-th record that created a
\* cluster: merges replace none of these fields and remove or reorder no
\* cluster.
C1_PrimaryFieldsAreFirstRecord ==
    /\ Len(aggregatedHeadlines) = Len(firstSeen)
    /\ \A i \in 1..Len(aggregatedHeadlines) :
           /\ aggregatedHeadlines[i].data.title = firstSeen[i].title
           /\ aggregatedHeadlines[i].data.url = firstSeen[i].url
           /\ aggregatedHeadlines[i].data.source = firstSeen[i].source
           /\ aggregatedHeadlines[i].data.publishedAt = firstSeen[i].publishedAt

\* C1 witness: two clusters, the first of which took a related article whose
\* longer description replaced the primary's
C1_Witness ==
    /\ Len(aggregatedHeadlines) >= 2
    /\ Len(aggregatedHeadlines[1].related) >= 1
    /\ aggregatedHeadlines[1].data.description # firstSeen[1].description
    /\ aggregatedHeadlines[1].data.source = firstSeen[1].source

C4_ExcludedRecordIsDropped ==
    [][ /\ IsExcludedRecord(offered'[Len(offered')]) =>
               /\ aggregatedHeadlines' = aggregatedHeadlines
               /\ returned'[Len(returned')] = FALSE
        /\ \A i \in 1..Len(aggregatedHeadlines') :
               ClusterUrls(aggregatedHeadlines'[i]) \cap dedupeOptions.excludedUrls = {} ]_vars

\* C4 witness: an excluded record was offered to a list that holds a cluster
\* it is a near duplicate of
C4_Witness ==
    /\ Len(offered) >= 2
    /\ IsExcludedRecord(LastOffered)
    /\ LastPath = "excluded"
    /\ matched # {}
    /\ Len(aggregatedHeadlines) >= 1

\* C5: a non-excluded record that is a near duplicate of several clusters
\* changes no cluster but the one of lowest index among them, which takes it
\* as a related article (unless that cluster already holds its URL, and then
\* no cluster changes).
C5_FirstFitMerge ==
    [][ LET record == offered'[Len(offered')]
            url == normalizeUrlForComparison(record.url)
        IN  (~IsExcludedRecord(record) /\ Cardinality(matched') >= 2) =>
                LET lo == CHOOSE k \in matched' : \A i \in matched' : k <= i
                    held == url # <<>> /\ url \in ClusterUrls(aggregatedHeadlines[lo])
                IN  /\ Len(aggregatedHeadlines') = Len(aggregatedHeadlines)
                    /\ \A k \in 1..Len(aggregatedHeadlines) :
                           k # lo => aggregatedHeadlines'[k] = aggregatedHeadlines[k]
                    /\ held => aggregatedHeadlines'[lo] = aggregatedHeadlines[lo]
                    /\ ~held =>
                           /\ aggregatedHeadlines'[lo].related =
                                  Append(aggregatedHeadlines[lo].related, RelatedArticleOf(record))
                           /\ aggregatedHeadlines[lo].tokenSet \subseteq
                                  aggregatedHeadlines'[lo].tokenSet ]_vars

\* C5 witness: the last record was a near duplicate of two clusters and was
\* merged into the first, the second keeping an empty related list
C5_Witness ==
    /\ Cardinality(matched) >= 2
    /\ LastPath = "merged"
    /\ Len(aggregatedHeadlines) = 2
    /\ Len(aggregatedHeadlines[1].related) = 1
    /\ aggregatedHeadlines[1].related[1] = RelatedArticleOf(LastOffered)
    /\ aggregatedHeadlines[2].related = <<>>

\* C8: of the two articles "AI testing leaps ahead" and "AI tests leap
\* ahead", offered in either order under their distinct URLs, strict mode
\* makes one cluster whose primary is the first offered and whose related
\* list holds exactly the second, and default mode makes two clusters with no
\* related article.
C8_InflectedTitles ==
    (Len(offered) = 2 /\ offered[1] # offered[2]
        /\ {offered[1], offered[2]} = {AiTesting, AiTests})
        => /\ dedupeOptions.mode = "strict" =>
                  /\ Len(aggregatedHeadlines) = 1
                  /\ aggregatedHeadlines[1].data.title = offered[1].title
                  /\ aggregatedHeadlines[1].data.url = offered[1].url
                  /\ aggregatedHeadlines[1].data.source = offered[1].source
                  /\ aggregatedHeadlines[1].related = <<RelatedArticleOf(offered[2])>>
           /\ dedupeOptions.mode = "default" =>
                  /\ Len(aggregatedHeadlines) = 2
                  /\ aggregatedHeadlines[1].data.url = offered[1].url
                  /\ aggregatedHeadlines[2].data.url = offered[2].url
                  /\ aggregatedHeadlines[1].related = <<>>
                  /\ aggregatedHeadlines[2].related = <<>>

\* C8 witness: strict mode has merged "AI tests leap ahead" into the cluster
\* of "AI testing leaps ahead"
C8_Witness ==
    /\ dedupeOptions.mode = "strict"
    /\ offered = <<AiTesting, AiTests>>
    /\ Len(aggregatedHeadlines) = 1
    /\ aggregatedHeadlines[1].data.url = AiTesting.url
    /\ Len(aggregatedHeadlines[1].related) = 1
    /\ aggregatedHeadlines[1].related[1].url = AiTests.url

\* C9: every cluster's tokenSet is the union of buildTokenSet, in the run's
\* mode, of the record that created the cluster and of every article in its
\* related list.
C9_TokenSetIsUnion ==
    \A i \in 1..Len(aggregatedHeadlines) :
        LET cluster == aggregatedHeadlines[i]
        IN  cluster.tokenSet =
                CachedTokenSet(firstSeen[i].title, firstSeen[i].description, dedupeOptions.mode)
                \cup UNION {CachedTokenSet(cluster.related[r].title,
                                           cluster.related[r].description,
                                           dedupeOptions.mode) :
                            r \in 1..Len(cluster.related)}

\* C9 witness: a cluster with two related articles whose tokenSet holds
\* tokens its creating record does not have
C9_Witness ==
    \E i \in 1..Len(aggregatedHeadlines) :
        /\ Len(aggregatedHeadlines[i].related) = 2
        /\ aggregatedHeadlines[i].tokenSet #
               CachedTokenSet(firstSeen[i].title, firstSeen[i].description, dedupeOptions.mode)

\* C10 as stated: every cluster's tokenSet holds at most MAX_TOKEN_COUNT
\* tokens, after any number of merges.
C10_TokenSetAtMost64 ==
    \A i \in 1..Len(aggregatedHeadlines) :
        Cardinality(aggregatedHeadlines[i].tokenSet) <= MAX_TOKEN_COUNT

\* C10 amended: the tokenSet createHeadlineCandidate builds for a record
\* holds at most MAX_TOKEN_COUNT tokens, so a cluster without related
\* articles holds at most that many; a merge adds the duplicate's tokens
\* without a cap, so a cluster with n related articles holds at most
\* MAX_TOKEN_COUNT * (1 + n).
C10_TokenSetBound ==
    /\ \A k \in 1..Len(offered) :
           Cardinality(CachedHeadlineCandidate(offered[k], dedupeOptions).tokenSet)
               <= MAX_TOKEN_COUNT
    /\ \A i \in 1..Len(aggregatedHeadlines) :
           Cardinality(aggregatedHeadlines[i].tokenSet)
               <= MAX_TOKEN_COUNT * (1 + Len(aggregatedHeadlines[i].related))

\* C10 witness: a cluster built from a record with more than MAX_TOKEN_COUNT
\* distinct words took one related article and holds more than
\* MAX_TOKEN_COUNT tokens
C10_Witness ==
    \E i \in 1..Len(aggregatedHeadlines) :
        /\ Len(aggregatedHeadlines[i].related) = 1
        /\ Cardinality(aggregatedHeadlines[i].tokenSet) > MAX_TOKEN_COUNT
        /\ Cardinality(CachedHeadlineCandidate(firstSeen[i], dedupeOptions).tokenSet)
               = MAX_TOKEN_COUNT

\* C11: a call changes a cluster's keyword, queryUsed or searchQuery only by
\* a merge, only when the primary's value was empty, and only to the non-empty
\* value of the merged record; a non-empty value is never changed.
C11_ProvenanceBackfilledNeverOverwritten ==
    [][ \A k \in 1..Len(aggregatedHeadlines) :
            LET old == aggregatedHeadlines[k].data
                new == aggregatedHeadlines'[k].data
                record == offered'[Len(offered')]
                merged == paths'[Len(paths')] = "merged"
            IN  /\ old.keyword # "" => new.keyword = old.keyword
                /\ old.queryUsed # "" => new.queryUsed = old.queryUsed
                /\ old.searchQuery # "" => new.searchQuery = old.searchQuery
                /\ new.keyword # old.keyword =>
                       merged /\ record.keyword # "" /\ new.keyword = record.keyword
                /\ new.queryUsed # old.queryUsed =>
                       merged /\ record.queryUsed # "" /\ new.queryUsed = record.queryUsed
                /\ new.searchQuery # old.searchQuery =>
                       merged /\ record.searchQuery # "" /\ new.searchQuery = record.searchQuery
      ]_vars

\* C11 witness: a cluster whose first record had no keyword holds a backfilled
\* keyword, and the record merged last carries another non-empty keyword
C11_Witness ==
    /\ Len(offered) >= 3
    /\ LastPath = "merged"
    /\ \E k \in 1..Len(aggregatedHeadlines) :
           /\ firstSeen[k].keyword = ""
           /\ aggregatedHeadlines[k].data.keyword # ""
           /\ aggregatedHeadlines[k].related[Len(aggregatedHeadlines[k].related)]
                  = RelatedArticleOf(LastOffered)
           /\ LastOffered.keyword # ""
           /\ LastOffered.keyword # aggregatedHeadlines[k].data.keyword

\* C12: a call changes a cluster's description only by a merge, only to the
\* merged record's description, and only when that description is strictly
\* longer than the one it replaces; the description's length never decreases.
C12_DescriptionOnlyGrows ==
    [][ \A k \in 1..Len(aggregatedHeadlines) :
            LET old == aggregatedHeadlines[k].data.description
                new == aggregatedHeadlines'[k].data.description
                record == offered'[Len(offered')]
            IN  /\ Len(new) >= Len(old)
                /\ new # old =>
                       /\ paths'[Len(paths')] = "merged"
                       /\ new = record.description
                       /\ Len(record.description) > Len(old)
      ]_vars

\* C12 witness: a cluster merged a record whose description differs from the
\* primary's and is exactly as long, and kept its own
C12_Witness ==
    /\ Len(offered) >= 2
    /\ LastPath = "merged"
    /\ \E k \in 1..Len(aggregatedHeadlines) :
           /\ Len(aggregatedHeadlines[k].related) >= 1
           /\ aggregatedHeadlines[k].related[Len(aggregatedHeadlines[k].related)]
                  = RelatedArticleOf(LastOffered)
           /\ LastOffered.description # aggregatedHeadlines[k].data.description
           /\ Len(LastOffered.description) = Len(aggregatedHeadlines[k].data.description)
           /\ aggregatedHeadlines[k].data.description = firstSeen[k].description

\* the places of the cluster list that hold a URL: <<k, 0>> the primary of
\* cluster k, <<k, r>> its r-th related article
UrlPlaces ==
    {place \in (1..Len(aggregatedHeadlines)) \X (0..Len(offered)) :
        place[2] <= Len(aggregatedHeadlines[place[1]].related)}

\* the normalized URL held at a place
UrlAt(place) ==
    IF place[2] = 0 THEN aggregatedHeadlines[place[1]].normalizedUrl
    ELSE normalizeUrlForComparison(aggregatedHeadlines[place[1]].related[place[2]].url)

\* C28 as stated: after any sequence of calls no two clusters of the list are
\* near duplicates of each other, by their current normalized fields and
\* merged token sets.
C28_NoTwoClustersNearDuplicate ==
    \A i, j \in 1..Len(aggregatedHeadlines) :
        i # j => ~areHeadlinesNearDuplicate(aggregatedHeadlines[i], aggregatedHeadlines[j],
                                            dedupeOptions)

\* C28, amended: a cluster is created only for a record that is a near
\* duplicate of none of the clusters the list holds at that moment, by the
\* fields and token sets they have then.
C28_NewClusterIsNoNearDuplicate ==
    [][Len(aggregatedHeadlines') = Len(aggregatedHeadlines) + 1 =>
          \A k \in 1..Len(aggregatedHeadlines) :
              ~areHeadlinesNearDuplicate(aggregatedHeadlines[k],
                                         aggregatedHeadlines'[Len(aggregatedHeadlines) + 1],
                                         dedupeOptions)]_vars

\* two clusters were created, neither a near duplicate of the other, and the
\* merge of a third record has given the first the description of the second
C28_Witness ==
    /\ paths = <<"created", "created", "merged">>
    /\ Len(aggregatedHeadlines) = 2
    /\ aggregatedHeadlines[1].normalizedDescription # <<>>
    /\ aggregatedHeadlines[1].normalizedDescription = aggregatedHeadlines[2].normalizedDescription
    /\ areHeadlinesNearDuplicate(aggregatedHeadlines[1], aggregatedHeadlines[2], dedupeOptions)

\* C29 as stated: after any sequence of calls no non-empty normalized URL
\* occurs at two places of the cluster list, primaries and related articles
\* of all clusters counted.
C29_NoUrlTwiceInList ==
    \A p, q \in UrlPlaces : (p # q /\ UrlAt(p) # <<>>) => UrlAt(p) # UrlAt(q)

\* C29, amended: no non-empty normalized URL occurs at two places of one
\* cluster, and none is the primary URL of two clusters.
C29_NoUrlTwiceInClusterNorAmongPrimaries ==
    \A p, q \in UrlPlaces :
        (/\ p # q
         /\ UrlAt(p) # <<>>
         /\ (p[1] = q[1] \/ (p[2] = 0 /\ q[2] = 0))) => UrlAt(p) # UrlAt(q)

\* a record was merged into the first cluster that matched it, and its URL
\* is the primary URL of a later cluster
C29_Witness ==
    /\ Len(paths) >= 3
    /\ LastPath = "merged"
    /\ \E p, q \in UrlPlaces :
           /\ p[1] < q[1]
           /\ p[2] > 0
           /\ q[2] = 0
           /\ UrlAt(p) # <<>>
           /\ UrlAt(p) = UrlAt(q)
           /\ UrlAt(p) = normalizeUrlForComparison(LastOffered.url)

\* ------------------------------------------------------------------------
\* Properties of the ranking (specification RankSpec)
\* ------------------------------------------------------------------------
\* rankHeadlineCandidates has returned
RankingDone == pc \in {"ranked", "responded"}

\* the place a cluster of the run takes in rankedCandidates
RankOf(i) ==
    CHOOSE p \in 1..Len(rankedCandidates) :
        rankedCandidates[p].candidate = aggregatedHeadlines[i]

\* the arrival index of the cluster ranked p-th
ArrivalOf(p) ==
    CHOOSE i \in 1..Len(aggregatedHeadlines) :
        aggregatedHeadlines[i] = rankedCandidates[p].candidate

ScoreAt(p) == rankedCandidates[p].ranking.score

AgeAt(p) == rankedCandidates[p].ranking.details.ageHours

\* C13: the returned list is the first min(limit, n) entries of the n
\* clusters of the run, every one of them ranked once, in an order in which
\* no entry has a higher total score than an entry before it; its length is
\* at most limit.
C13_TopRankedByScore ==
    pc = "responded" =>
        /\ Len(rankedCandidates) = Len(aggregatedHeadlines)
        /\ \A i \in 1..Len(aggregatedHeadlines) :
               \E p \in 1..Len(rankedCandidates) :
                   rankedCandidates[p].candidate = aggregatedHeadlines[i]
        /\ \A p, q \in 1..Len(rankedCandidates) :
               p < q => ~FracLess(ScoreAt(p), ScoreAt(q))
        /\ Len(topRanked) = Min(limit, Len(aggregatedHeadlines))
        /\ Len(topRanked) <= limit
        /\ \A p \in 1..Len(topRanked) : topRanked[p] = rankedCandidates[p]

\* C13 witness: more clusters than the limit; the cluster that arrived first
\* has a lower score than the one ranked first and is cut off
C13_Witness ==
    /\ pc = "responded"
    /\ Len(aggregatedHeadlines) > limit
    /\ Len(topRanked) = limit
    /\ RankOf(1) > limit
    /\ FracLess(ScoreAt(RankOf(1)), ScoreAt(1))

\* C15 as stated: of two clusters with equal total score the younger comes
\* first when both have an age and the ages differ, and in every other case
\* the one that arrived first.
C15_TieBreakAgeThenArrival ==
    RankingDone =>
        \A p, q \in 1..Len(rankedCandidates) :
            (p < q /\ ScoreAt(p) = ScoreAt(q)) =>
                IF AgeAt(p) # NullAge /\ AgeAt(q) # NullAge /\ AgeAt(p) # AgeAt(q)
                THEN AgeAt(p) < AgeAt(q)
                ELSE ArrivalOf(p) < ArrivalOf(q)

\* C15 amended: of two clusters with equal total score, the younger comes
\* first when both have an age and the ages differ; a cluster with an age
\* comes before a cluster without one; when the ages are equal or both are
\* null, the one that arrived first comes first.
C15_TieBreakNullAgeLast ==
    RankingDone =>
        \A p, q \in 1..Len(rankedCandidates) :
            (p < q /\ ScoreAt(p) = ScoreAt(q)) =>
                IF AgeAt(p) = AgeAt(q) THEN ArrivalOf(p) < ArrivalOf(q)
                ELSE /\ AgeAt(p) # NullAge
                     /\ AgeAt(q) # NullAge => AgeAt(p) < AgeAt(q)

\* C15 witness: two clusters of equal total score; the one without an age
\* arrived first and is ranked after the one with an age
C15_Witness ==
    /\ RankingDone
    /\ \E p, q \in 1..Len(rankedCandidates) :
           /\ p < q
           /\ ScoreAt(p) = ScoreAt(q)
           /\ AgeAt(p) # NullAge
           /\ AgeAt(q) = NullAge
           /\ ArrivalOf(q) < ArrivalOf(p)

\* two clusters that differ in the primary's publishedAt and in nothing else
SameButDate(a, b) ==
    /\ a.data.publishedAt # b.data.publishedAt
    /\ [a EXCEPT !.data.publishedAt = b.data.publishedAt] = b

\* the cluster's publishedAt is a date
HasDate(cluster) ==
    cluster.data.publishedAt # "" /\ ~DateParse(cluster.data.publishedAt).isNaN

\* cluster i is dated after cluster j, and they differ in nothing else
MoreRecentTwin(i, j) ==
    /\ SameButDate(aggregatedHeadlines[i], aggregatedHeadlines[j])
    /\ HasDate(aggregatedHeadlines[i])
    /\ HasDate(aggregatedHeadlines[j])
    /\ DateParse(aggregatedHeadlines[i].data.publishedAt).time
           > DateParse(aggregatedHeadlines[j].data.publishedAt).time

\* C16 as stated: of two clusters that differ only in a parseable
\* publishedAt, the more recent one is placed before the other, whatever the
\* arrival order and the current time.
C16_MoreRecentRanksFirst ==
    RankingDone =>
        \A i, j \in 1..Len(aggregatedHeadlines) :
            MoreRecentTwin(i, j) => RankOf(i) < RankOf(j)

\* C16 amended: of two clusters that differ only in a parseable publishedAt,
\* the one whose computed age is smaller is placed first, and with equal
\* ages the one that arrived first; the more recent one has the smaller age,
\* and so is placed first, when both ages are computed from the same reading
\* of the clock and the older publishedAt lies before that reading.
C16_YoungerTwinRanksFirst ==
    RankingDone =>
        \A i, j \in 1..Len(aggregatedHeadlines) :
            MoreRecentTwin(i, j) =>
                /\ AgeAt(RankOf(i)) < AgeAt(RankOf(j)) => RankOf(i) < RankOf(j)
                /\ AgeAt(RankOf(i)) > AgeAt(RankOf(j)) => RankOf(j) < RankOf(i)
                /\ AgeAt(RankOf(i)) = AgeAt(RankOf(j)) => (RankOf(i) < RankOf(j) <=> i < j)
                /\ (/\ nowReadings[i] = nowReadings[j]
                    /\ DateParse(aggregatedHeadlines[j].data.publishedAt).time < nowReadings[j])
                       => RankOf(i) < RankOf(j)

\* C16 witness: the more recent of two such clusters arrived later, its age
\* was computed from the same reading, and it is placed first
C16_Witness ==
    /\ RankingDone
    /\ \E i, j \in 1..Len(aggregatedHeadlines) :
           /\ MoreRecentTwin(i, j)
           /\ j < i
           /\ nowReadings[i] = nowReadings[j]
           /\ AgeAt(RankOf(i)) > 0
           /\ AgeAt(RankOf(i)) < maxHours
           /\ RankOf(i) < RankOf(j)

\* C17: a ranked cluster's sourceDiversity is 1/k, k the number of clusters
\* of the run whose primary source, trimmed and lowercased, is this
\* cluster's.
C17_SourceDiversityIsOneOverK ==
    RankingDone =>
        \A p \in 1..Len(rankedCandidates) :
            rankedCandidates[p].ranking.components.sourceDiversity =
                Frac(1, Cardinality(
                    {i \in 1..Len(aggregatedHeadlines) :
                        toLowerCase(trim(aggregatedHeadlines[i].data.source)) =
                        toLowerCase(trim(rankedCandidates[p].candidate.data.source))}))

\* C17 witness: four clusters, three of one source (1/3 each) and one of
\* another (1), the latter not the last to arrive
C17_Witness ==
    /\ RankingDone
    /\ Len(rankedCandidates) = 4
    /\ Cardinality({p \in 1..4 :
           rankedCandidates[p].ranking.components.sourceDiversity = Frac(1, 3)}) = 3
    /\ \E p \in 1..4 :
           /\ rankedCandidates[p].ranking.components.sourceDiversity = FracOne
           /\ ArrivalOf(p) < 4

\* a score between 0 and 1
InUnitInterval(x) ==
    /\ x.den > 0
    /\ x.num >= 0
    /\ FracAtLeast(x, FracZero)
    /\ FracAtMost(x, FracOne)

\* C19: each of the four components of every ranked cluster lies in [0, 1].
C19_ComponentsInUnitInterval ==
    RankingDone =>
        \A p \in 1..Len(rankedCandidates) :
            /\ InUnitInterval(rankedCandidates[p].ranking.components.recency)
            /\ InUnitInterval(rankedCandidates[p].ranking.components.sourceDiversity)
            /\ InUnitInterval(rankedCandidates[p].ranking.components.topicCoverage)
            /\ InUnitInterval(rankedCandidates[p].ranking.components.clusterSupport)

\* C19 witness: ranked together, a cluster without source and tokens dated
\* after the clock's reading, and a cluster whose publishedAt is no date
C19_Witness ==
    /\ RankingDone
    /\ \E i, j \in 1..Len(aggregatedHeadlines) :
           /\ aggregatedHeadlines[i].data.source = <<>>
           /\ aggregatedHeadlines[i].tokenSet = {}
           /\ HasDate(aggregatedHeadlines[i])
           /\ DateParse(aggregatedHeadlines[i].data.publishedAt).time > nowReadings[i]
           /\ aggregatedHeadlines[j].data.publishedAt # ""
           /\ ~HasDate(aggregatedHeadlines[j])

\* C20 as stated: every ranked cluster carries between 2 and 4 reasons.
C20_TwoToFourReasons ==
    RankingDone =>
        \A p \in 1..Len(rankedCandidates) :
            /\ Len(rankedCandidates[p].ranking.reasons) >= 2
            /\ Len(rankedCandidates[p].ranking.reasons) <= 4

\* the reasons each of the four checks can give
RecencyLines == {"Published within the last 18 hours", "Published recently", "Older coverage"}

SourceLines == {"Unique source in this set", "Source appears multiple times"}

TopicLines == {"Adds distinct topic details", "Overlaps heavily with other articles"}

ClusterLines == {"Covered by many outlets", "Multiple supporting reports",
                 "Limited supporting coverage"}

\* the number of a cluster's reasons that are among the given lines
LinesAmong(reasons, lines) == Cardinality({n \in 1..Len(reasons) : reasons[n] \in lines})

\* C20 amended: every ranked cluster carries between 0 and 4 reasons, at
\* most one for each of the four components.
C20_AtMostFourReasons ==
    RankingDone =>
        \A p \in 1..Len(rankedCandidates) :
            LET reasons == rankedCandidates[p].ranking.reasons
            IN  /\ Len(reasons) <= 4
                /\ LinesAmong(reasons, RecencyLines) <= 1
                /\ LinesAmong(reasons, SourceLines) <= 1
                /\ LinesAmong(reasons, TopicLines) <= 1
                /\ LinesAmong(reasons, ClusterLines) <= 1
                /\ Len(reasons) = LinesAmong(reasons, RecencyLines)
                                  + LinesAmong(reasons, SourceLines)
                                  + LinesAmong(reasons, TopicLines)
                                  + LinesAmong(reasons, ClusterLines)

\* C20 witness: ranked together, a cluster with no reason and one with four
C20_Witness ==
    /\ RankingDone
    /\ \E p, q \in 1..Len(rankedCandidates) :
           /\ Len(rankedCandidates[p].ranking.reasons) = 0
           /\ Len(rankedCandidates[q].ranking.reasons) = 4

\* ------------------------------------------------------------------------
\* Properties of the cluster support (specification SupportSpec)
\* ------------------------------------------------------------------------
\* the cluster support component the last ranking gave the one cluster
SupportAt == rankedCandidates[1].ranking.components.clusterSupport

\* the members of the one cluster: the primary and the related articles
MembersNow == 1 + Len(aggregatedHeadlines[1].related)

\* the sources of the one cluster, trimmed and lowercased, a blank source
\* standing for 'unknown'
SourcesNow ==
    Cardinality({SourceKey(aggregatedHeadlines[1].data.source)} \cup
                {SourceKey(aggregatedHeadlines[1].related[r].source) :
                    r \in 1..Len(aggregatedHeadlines[1].related)})

\* C18: the cluster support of a ranked cluster is the average of
\* min(1, (members - 1) / 7) and min(1, (sources - 1) / 4), the members being
\* the primary and the related articles and the sources the distinct sources
\* among them; it is 1 exactly when the cluster has at least 8 members and at
\* least 5 sources; and a cluster ranked again after reports were merged into
\* it never has a lower cluster support than it had before.
C18_ClusterSupportAverageAndMonotone ==
    /\ [](RankingDone =>
            /\ SupportAt =
                   Frac((IF MembersNow >= 8 THEN 28 ELSE 4 * (MembersNow - 1))
                        + (IF SourcesNow >= 5 THEN 28 ELSE 7 * (SourcesNow - 1)), 56)
            /\ (SupportAt = FracOne) <=> (MembersNow >= 8 /\ SourcesNow >= 5)
            /\ rankedCandidates[1].ranking.details.clusterSize = MembersNow
            /\ rankedCandidates[1].ranking.details.clusterUniqueSources = SourcesNow)
    /\ [][(pc = "aggregated" /\ pc' = "ranked" /\ rankedCandidates # <<>>) =>
             FracAtLeast(rankedCandidates'[1].ranking.components.clusterSupport,
                         rankedCandidates[1].ranking.components.clusterSupport)]_vars

\* a cluster of seven members and four sources, ranked below full support,
\* has taken one more report from a fifth source and is ranked at 1
C18_Witness ==
    /\ pc = "ranked"
    /\ Len(offered) = 1
    /\ paths = <<"merged">>
    /\ MembersNow = 8
    /\ SourcesNow = 5
    /\ SupportAt = FracOne
    /\ nowReadings # <<>>
    /\ aggregatedHeadlines[1].data = SevenOfFour.data

\* ------------------------------------------------------------------------
\* Properties of the search loop (specification HandlerSpec)
\* ------------------------------------------------------------------------
\* the articles the API holds for the request's queries that carry a title
\* and a URL
UsableArticles ==
    UNION {{results[q][k] : k \in 1..Len(results[q])} : q \in 1..Len(results)} \cap
    {ArticlePool[i] : i \in {j \in 1..Len(ArticlePool) :
                                ArticlePool[j].title # <<>> /\ ArticlePool[j].url # <<>>}}

\* C14: the limit is applied only after ranking: when the clusters handed to
\* the ranker have reached the limit, every article the queries hold that
\* has a title and a URL has still been offered to addHeadlineIfUnique, none
\* having been left out because the number of clusters had reached the limit.
C14_LimitAppliedOnlyAfterRanking ==
    (RankingDone /\ Len(aggregatedHeadlines) >= limit) =>
        \A article \in UsableArticles : \E j \in 1..Len(offered) : offered[j] = article

\* ------------------------------------------------------------------------
\* Properties of two runs over the same records (specification RepeatSpec)
\* ------------------------------------------------------------------------
\* the second run has answered
SecondRunDone == pc = "responded" /\ previousRun # <<>>

PairSameUrl == pair[1].normalizedUrl # <<>> /\ pair[1].normalizedUrl = pair[2].normalizedUrl

PairSameTitle ==
    pair[1].normalizedTitle # <<>> /\ pair[1].normalizedTitle = pair[2].normalizedTitle

PairSameDescription ==
    /\ pair[1].normalizedDescription # <<>>
    /\ pair[1].normalizedDescription = pair[2].normalizedDescription

\* |A \cap B| and min(|A|, |B|) of the pair's token sets
PairShared == Cardinality(pair[1].tokenSet \cap pair[2].tokenSet)

PairSmaller == Min(Cardinality(pair[1].tokenSet), Cardinality(pair[2].tokenSet))

\* the mode's overlap threshold in hundredths: 0.70 or 0.55
PairThresholdPercent == IF dedupeOptions.mode = "strict" THEN 55 ELSE 70

PairOverlapAtLeastThreshold ==
    PairSmaller > 0 /\ PairShared * 100 >= PairThresholdPercent * PairSmaller

PairOverlapAtThreshold ==
    PairSmaller > 0 /\ PairShared * 100 = PairThresholdPercent * PairSmaller

\* strict mode and a Jaro-Winkler similarity of the titles of 0.88 or more
PairStrictTitleSimilar ==
    /\ dedupeOptions.mode = "strict"
    /\ LET similarity ==
               computeJaroWinklerSimilarity(pair[1].normalizedTitle, pair[2].normalizedTitle)
       IN  similarity.num * 100 >= 88 * similarity.den

\* C6: areHeadlinesNearDuplicate returns true exactly when one of the five
\* checks holds (equal non-empty normalized URL, title or description; token
\* overlap at or above the mode's threshold; in strict mode only, title
\* similarity of 0.88 or more), in whatever order they are taken.
C6_NearDuplicateIsTheOrOfFive ==
    verdict # "pending" =>
        (verdict = "duplicate" <=>
            \/ PairStrictTitleSimilar
            \/ PairOverlapAtLeastThreshold
            \/ PairSameDescription
            \/ PairSameTitle
            \/ PairSameUrl)

\* C6 witness: a pair classified as duplicates in strict mode on its title
\* similarity alone
C6_Witness ==
    /\ verdict = "duplicate"
    /\ PairStrictTitleSimilar
    /\ ~PairOverlapAtLeastThreshold
    /\ ~PairSameDescription
    /\ ~PairSameTitle
    /\ ~PairSameUrl

\* C7 as stated: a pair whose overlap ratio is exactly the mode's threshold
\* is classified as duplicates, a pair whose ratio is below it is not, and
\* the ratio is 0 when either token set is empty.
C7_ThresholdDecides ==
    verdict # "pending" =>
        /\ PairOverlapAtThreshold => verdict = "duplicate"
        /\ ~PairOverlapAtLeastThreshold => verdict = "distinct"
        /\ PairSmaller = 0 =>
               computeTokenOverlapRatio(pair[1].tokenSet, pair[2].tokenSet).num = 0

\* C7 amended: a pair whose overlap ratio is exactly the mode's threshold is
\* classified as duplicates; a pair whose ratio is below it is classified as
\* duplicates only when its normalized URLs, titles or descriptions are equal
\* and non-empty or, in strict mode, its titles are similar, and is otherwise
\* not; the ratio is |A \cap B| / min(|A|, |B|), and 0 when either token set
\* is empty.
C7_ThresholdBoundary ==
    verdict # "pending" =>
        LET ratio == computeTokenOverlapRatio(pair[1].tokenSet, pair[2].tokenSet)
            otherCheck == \/ PairSameUrl
                          \/ PairSameTitle
                          \/ PairSameDescription
                          \/ PairStrictTitleSimilar
        IN  /\ PairOverlapAtThreshold => verdict = "duplicate"
            /\ ~PairOverlapAtLeastThreshold => (verdict = "duplicate" <=> otherCheck)
            /\ PairSmaller = 0 => ratio.num = 0
            /\ PairSmaller > 0 => ratio.num * PairSmaller = PairShared * ratio.den

\* C7 witness: a pair of records with different URLs, titles and descriptions
\* whose overlap ratio is exactly the threshold was classified as duplicates
C7_Witness ==
    /\ verdict = "duplicate"
    /\ PairOverlapAtThreshold
    /\ ~PairSameUrl
    /\ ~PairSameTitle
    /\ ~PairSameDescription
    /\ ~PairStrictTitleSimilar

\* C27: the classifier is symmetric: the verdict on the pair (a, b) is the
\* verdict the classifier gives on (b, a), in both modes.
C27_ClassifierIsSymmetric ==
    verdict # "pending" =>
        ((verdict = "duplicate") <=>
             areHeadlinesNearDuplicate(pair[2], pair[1], dedupeOptions))

\* two candidates in strict mode with token sets of different sizes, titles
\* of different lengths and nothing else in common, found duplicates by the
\* similarity of their titles
C27_Witness ==
    /\ verdict = "duplicate"
    /\ dedupeOptions.mode = "strict"
    /\ ~PairSameUrl
    /\ ~PairSameTitle
    /\ ~PairSameDescription
    /\ ~PairOverlapAtLeastThreshold
    /\ Len(pair[1].normalizedTitle) < Len(pair[2].normalizedTitle)
    /\ PairStrictTitleSimilar

\* the pair's two records as candidates built in strict mode
StrictPair ==
    <<createHeadlineCandidate(pair[1].data, DedupeOptionsOf("strict", <<>>)),
      createHeadlineCandidate(pair[2].data, DedupeOptionsOf("strict", <<>>))>>

\* C25 as stated: two records that the classifier finds duplicates with
\* candidates built in default mode are found duplicates with candidates
\* built in strict mode.
C25_StrictAtLeastAsAggressive ==
    (dedupeOptions.mode = "default" /\ verdict = "duplicate") =>
        areHeadlinesNearDuplicate(StrictPair[1], StrictPair[2], DedupeOptionsOf("strict", <<>>))

\* C25, amended: two candidates that the classifier finds duplicates with
\* options.mode = default are found duplicates, the same two candidates, with
\* options.mode = strict.
C25_StrictOptionsAtLeastAsAggressive ==
    (dedupeOptions.mode = "default" /\ verdict = "duplicate") =>
        areHeadlinesNearDuplicate(pair[1], pair[2], DedupeOptionsOf("strict", <<>>))

\* two candidates built in default mode, duplicates by their token overlap
\* alone, whose records built in strict mode are no duplicates
C25_Witness ==
    /\ dedupeOptions.mode = "default"
    /\ verdict = "duplicate"
    /\ ~PairSameUrl
    /\ ~PairSameTitle
    /\ ~PairSameDescription
    /\ PairOverlapAtLeastThreshold
    /\ ~areHeadlinesNearDuplicate(StrictPair[1], StrictPair[2], DedupeOptionsOf("strict", <<>>))

\* ------------------------------------------------------------------------
\* Properties of the handler (specifications RouteSpec and RouteFairSpec)
\* ------------------------------------------------------------------------
\* every cluster of every keyword list describes itself as its data does
KeywordClustersConsistent ==
    \A e \in 1..Len(keywordHeadlineResults) :
        \A j \in 1..Len(keywordHeadlineResults[e].candidates) :
            keywordHeadlineResults[e].candidates[j].normalizedDescription =
                normalizeHeadlineText(keywordHeadlineResults[e].candidates[j].data.description)

\* the step is an offer to aggregatedHeadlines that ended in a merge
MergedIntoGlobal ==
    /\ pc = "articles"
    /\ Len(paths') = Len(paths) + 1
    /\ paths'[Len(paths')] = "merged"

\* C26: merging a record into a cluster of aggregatedHeadlines changes no
\* field of any cluster held in the list of a keyword, and the
\* normalizedDescription of every cluster of a keyword list stays the
\* normalized form of the description its data holds
C26_MergeLeavesOtherListsUnchanged ==
    /\ [](KeywordClustersConsistent)
    /\ [][MergedIntoGlobal => keywordHeadlineResults' = keywordHeadlineResults]_vars

\* the places of the trace where a feed was requested or one of its records
\* was offered to the aggregator, and those where the news API was requested
FeedEvents ==
    {i \in 1..Len(trace) :
        \/ trace[i].event = "rss"
        \/ trace[i].event = "offer" /\ \E f \in 1..Len(rssFeeds) : rssFeeds[f] = trace[i].target}

NewsApiRequests == {i \in 1..Len(trace) : trace[i].event = "newsapi"}

\* C22: in one invocation every feed of the request has been requested, and
\* its records offered to aggregatedHeadlines, before the first request to
\* the news API, and in queriesAttempted the RSS labels come before every
\* search query
C22_FeedsBeforeNewsApi ==
    /\ \A i \in FeedEvents : \A j \in NewsApiRequests : i < j
    /\ NewsApiRequests # {} =>
           \A f \in 1..Len(rssFeeds) :
               \E i \in FeedEvents : trace[i].event = "rss" /\ trace[i].target = rssFeeds[f]
    /\ \A i, j \in 1..Len(queriesAttempted) :
           queriesAttempted[i] \in RssLabels /\ queriesAttempted[j] \notin RssLabels => i < j

\* a run that got a record from each of two feeds and then asked the news API
C22_Witness ==
    /\ pc = "responded"
    /\ Len(rssFeeds) = 2
    /\ Cardinality({trace[i].target : i \in {k \in FeedEvents : trace[k].event = "offer"}}) = 2
    /\ NewsApiRequests # {}
    /\ \E i, j \in 1..Len(queriesAttempted) :
           queriesAttempted[i] \in RssLabels /\ queriesAttempted[j] \notin RssLabels

\* the answers to a feed request that the handler takes for a failure of the
\* feed: AbortError, status not OK, empty body, parse error
FailedFeedAnswers == {"timed out", "failed", "empty", "unparsable"}

\* the places of the trace where a feed request failed
FailedFeedRequests ==
    {i \in 1..Len(trace) : trace[i].event = "rss" /\ trace[i].answer \in FailedFeedAnswers}

\* a failed feed has a warning that names it and has had no record offered
FailedFeedsLeaveWarningsOnly ==
    \A i \in FailedFeedRequests :
        /\ \E k \in 1..Len(queryWarnings) : queryWarnings[k].about = trace[i].target
        /\ \A j \in 1..Len(trace) :
               ~(trace[j].event = "offer" /\ trace[j].target = trace[i].target)

\* once the handler has answered, every feed has been requested and every
\* search entry attempted, unless the clusters have reached the limit; the
\* answer is 502 only without any cluster, and 200 with one
RunGoesOnAfterFeeds ==
    /\ Answered =>
           /\ \A f \in 1..Len(rssFeeds) :
                  \E i \in 1..Len(trace) :
                      trace[i].event = "rss" /\ trace[i].target = rssFeeds[f]
           /\ \/ Len(aggregatedHeadlines) >= limit
              \/ \A q \in 1..Len(searchQueries) :
                     \E a \in 1..Len(queriesAttempted) :
                         queriesAttempted[a] = searchQueries[q].query
    /\ (ResponseStatus = 502 => aggregatedHeadlines = <<>>)
    /\ (Answered /\ aggregatedHeadlines # <<>> => ResponseStatus = 200)

\* C23: a feed request that times out, is answered with a status that is not
\* OK, with an empty body or with a body that cannot be parsed leaves a
\* warning that names the feed, adds no cluster and changes no cluster; the
\* handler goes on with the next feed and, after the last one, with the search
\* entries (each is attempted unless the clusters have reached the limit), and
\* it answers 502 only when there is no cluster at all
C23_FailedFeedIsSkipped ==
    /\ [](FailedFeedsLeaveWarningsOnly /\ RunGoesOnAfterFeeds)
    /\ [][pc = "feeds" /\ trace'[Len(trace) + 1].answer \in FailedFeedAnswers =>
              /\ aggregatedHeadlines' = aggregatedHeadlines
              /\ pc' = IF feedIndex < Len(rssFeeds) THEN "feeds" ELSE "searching"]_vars

\* the first feed timed out, the second gave a cluster, the news API was
\* asked and the answer is 200 with a warning about the first feed
C23_Witness ==
    /\ ResponseStatus = 200
    /\ Len(rssFeeds) = 2
    /\ trace[1].event = "rss" /\ trace[1].answer = "timed out"
    /\ \E j \in 1..Len(trace) :
           trace[j].event = "offer" /\ trace[j].target = rssFeeds[2] /\ trace[j].answer = "created"
    /\ NewsApiRequests # {}
    /\ \E k \in 1..Len(queryWarnings) : queryWarnings[k].about = rssFeeds[1]

\* the least whole number that is at least n / d
CeilingOf(n, d) == CHOOSE c \in 0..n : c * d >= n /\ (c - 1) * d < n

\* the first page requested for the search entry of page request i
FirstPageOf(i) ==
    pages[CHOOSE k \in 1..i : /\ pages[k].query = pages[i].query
                              /\ \A j \in 1..i : pages[j].query = pages[i].query => k <= j]

\* the quota of the search entry of page request i: perQuery for a primary
\* entry; for a fallback, the capacity left when the entry began over the
\* fallback entries not yet done
ExpectedQuota(i) ==
    IF searchQueries[pages[i].query].fallback
    THEN CeilingOf(limit - FirstPageOf(i).clustersBefore,
                   Cardinality({q \in pages[i].query..Len(searchQueries) :
                                   searchQueries[q].fallback}))
    ELSE CeilingOf(limit, Cardinality({q \in 1..Len(searchQueries) :
                                          ~searchQueries[q].fallback}))

\* what the handler does after page request i is settled
PageSettled(i) ==
    \/ i < Len(pages)
    \/ pc \notin {"articles", "keywordOffer", "pageDone", "paging"}

\* the request after page request i is for the next page of the same entry
NextPageRequested(i) ==
    /\ i < Len(pages)
    /\ pages[i + 1].query = pages[i].query
    /\ pages[i + 1].page = pages[i].page + 1

\* page request i got a valid OK answer that added a cluster and was full,
\* and neither the entry's quota nor the limit was reached
PageCallsForNext(i) ==
    /\ pages[i].valid
    /\ pages[i].added >= 1
    /\ pages[i].received >= pages[i].pageSize
    /\ pages[i].addedByQuery < ExpectedQuota(i)
    /\ pages[i].clusters < limit

PagingRule ==
    \A i \in 1..Len(pages) :
        /\ pages[i].quota = ExpectedQuota(i)
        /\ pages[i].pageSize = Min(limit - pages[i].clustersBefore,
                                   ExpectedQuota(i) - pages[i].addedBefore)
        /\ pages[i].page = IF i > 1 /\ pages[i - 1].query = pages[i].query
                           THEN pages[i - 1].page + 1 ELSE 1
        /\ PageSettled(i) => (NextPageRequested(i) <=> PageCallsForNext(i))

\* the step offers a record that is a duplicate of a cluster
DuplicateOffered ==
    /\ pc = "articles"
    /\ Len(paths') = Len(paths) + 1
    /\ paths'[Len(paths')] \in {"merged", "same-url"}

\* C24: for each search entry the handler requests page p + 1 exactly when
\* page p was a valid OK answer that added at least one cluster and held at
\* least pageSize articles and neither the entry's quota nor the limit is
\* reached; the quota is ceil(limit / primary entries) for a primary entry
\* and ceil(remaining capacity / remaining fallback entries) for a fallback;
\* each pageSize is min(limit - clusters, quota - added by the entry); a
\* duplicate does not count toward the quota and does not end the page
C24_PagingFollowsQuotas ==
    /\ [](PagingRule)
    /\ [][DuplicateOffered =>
              /\ addedByQuery' = addedByQuery
              /\ pc' = "pageDone" => Tail(pending) = <<>>]_vars

\* a primary entry turned the page after a page with a duplicate, and a
\* fallback entry was requested with a quota below the limit
C24_Witness ==
    /\ Answered
    /\ \E i \in 1..Len(pages) :
           /\ ~searchQueries[pages[i].query].fallback
           /\ NextPageRequested(i)
           /\ pages[i].added < pages[i].received
    /\ \E i \in 1..Len(pages) :
           /\ searchQueries[pages[i].query].fallback
           /\ pages[i].quota < limit

\* the page requests made for search entry q
RequestsFor(q) == {i \in 1..Len(pages) : pages[i].query = q}

\* C30: whatever the news API answers, a search entry is asked for at most
\* maxForQuery pages, every page that is followed by another has added at
\* least one cluster, and the handler reaches its answer: the ranked list or
\* the error response
C30_PagingTerminates ==
    /\ [](/\ \A i \in 1..Len(pages) :
                Cardinality(RequestsFor(pages[i].query)) <= pages[i].quota
          /\ \A i \in 1..Len(pages) :
                NextPageRequested(i) =>
                    /\ pages[i].added >= 1
                    /\ pages[i + 1].clustersBefore > pages[i].clustersBefore)
    /\ <>(Answered)

\* an entry with a quota of two was asked for two pages, the second of which
\* was no valid answer, and the handler has answered
C30_Witness ==
    /\ Answered
    /\ \E i \in 1..Len(pages) :
           /\ NextPageRequested(i)
           /\ Cardinality(RequestsFor(pages[i].query)) = pages[i].quota
           /\ ~pages[i + 1].valid

====
